---------------------------- MODULE Spec2Model ----------------------------
(***************************************************************************)
(* A model of the FIFO family of openMHA's mha_fifo.h:                     *)
(*   mha_fifo_t          the ring buffer without synchronisation           *)
(*   mha_fifo_lf_t       the lock-free ring buffer, one writer thread and  *)
(*                       one reader thread                                 *)
(*   mha_drifter_fifo_t  the drifting ring buffer                          *)
(*   mha_rt_fifo_t       the queue that hands objects to a realtime thread *)
(*   mha_dblbuf_t        the double buffer that adapts block sizes         *)
(*   mha_fifo_lw_t       the ring buffer that blocks on a lock             *)
(* and, at the end of the module, of the steering index computed by        *)
(* steerbf_config::process of the steerbf plugin.                          *)
(* The three classes share the storage and the two cursors of mha_fifo_t,  *)
(* so the model shares buf, write_ptr and read_ptr.  A pointer into buf is *)
(* modelled by the 1-based index of the element it points to:              *)
(* &buf.front() is 1 and &buf.back() is Len(buf).                          *)
(*                                                                         *)
(* Elements passed to write are numbered 1, 2, 3, ... in the order they    *)
(* are offered, so that every element is distinguishable from every other  *)
(* and from the fill value T() = 0; the classes only copy elements.        *)
(***************************************************************************)
EXTENDS Integers, Sequences, FiniteSets, TLC

\* Largest max_fill_count a FIFO is constructed with.
MaxCap == 3
\* Largest count passed to one write or read call (exceeds MaxCap, so that
\* calls larger than any space or fill count are made).
MaxCount == 4
\* Number of elements offered to write over a whole run.
MaxWritten == 6
\* Largest max_fill_count a drifting FIFO is constructed with.
DrMaxCap == 2
\* Largest count passed to one write or read call of the drifting FIFO.
DrMaxCount == 3
\* Number of elements offered to write of the drifting FIFO over a whole run.
DrMaxOffered == 3
\* Largest value the total xrun counters of the drifting FIFO reach in a run.
MaxXruns == 1
\* The runs that exercise the stop policy: largest max_fill_count, and the
\* number of xruns the two sides together may count beyond one side's
\* in-succession limit.
StopCap == 1
StopExtra == 2
\* The runs of a faster writer: largest max_fill_count, largest count of a
\* write, and the number of writes of a run.
RunCap == 3
RunCount == 3
RunWrites == 14
\* The runs that record what a Running drifting FIFO stores and delivers:
\* largest max_fill_count, largest count of a call, the number of elements
\* offered to write, and the number of explicit starting() calls recorded
\* in one Running period.
LatCap == 2
LatCount == 2
LatOffered == 2
LatStarts == 1

\* Construction of mha_fifo_t: the width in bits of the unsigned counters,
\* and the largest count of a call made on the constructed FIFO.
UWidth == 2
CtCount == 2

\* steerbf: the width in bits of int, and the largest number of steering
\* directions the filter matrix bf_vec holds.
IntWidth == 11
MaxAngles == 73

\* Number of push calls made on a queue over a whole run.
MaxPush == 6

\* The double buffer: largest outer_size and inner_size, largest delay, the
\* number of process calls of a run with counts and an inner side of any
\* kind, and the number of process calls of a run with count = outer_size
\* and an inner side that runs as soon as it can.
DbMaxSize == 3
DbMaxDelay == 3
DbCalls == 3
DbBlocks == 5
\* The ring buffer that blocks: largest max_fill_count, and the number of
\* elements offered to write over a run that records what is stored.
LwMaxCap == 2
LwMaxWritten == 4

VARIABLES
    buf,              \* mha_fifo_t::buf
    write_ptr,        \* mha_fifo_t::write_ptr
    read_ptr,         \* mha_fifo_t::read_ptr
    atomic_write_ptr, \* mha_fifo_lf_t::atomic_write_ptr
    atomic_read_ptr,  \* mha_fifo_lf_t::atomic_read_ptr
    writer,           \* the writer thread of the lock-free FIFO
    reader,           \* the reader thread of the lock-free FIFO
    drifter,          \* the fields mha_drifter_fifo_t adds
    written,          \* history: the elements stored by write, in order
    readout,          \* history: the elements delivered by read, in order
    offered,          \* history: number of elements passed to write so far
    last,             \* the latest call: its operation, count and outcome
    outbuf,           \* the caller's target buffer right after a read call
    mid,              \* the state right after starting() within the latest call
    run,              \* the counts of a run that alternates write and read
    nodes,            \* the mha_rt_fifo_element_t objects allocated so far
    root,             \* mha_rt_fifo_t::root
    current,          \* mha_rt_fifo_t::current
    producer,         \* the thread that calls mha_rt_fifo_t::push
    consumer,         \* the thread that calls mha_rt_fifo_t::poll and poll_1
    rtlog,            \* history of the calls of mha_rt_fifo_t
    dblbuf,           \* the fields of a mha_dblbuf_t and its two FIFOs
    dblog,            \* the outer and the inner side of the mha_dblbuf_t
    sync,             \* mha_fifo_lw_t::sync and mha_fifo_lw_t::error
    side,             \* the reader and the writer thread of the mha_fifo_lw_t
    fixed_beam_value,       \* steerbf.cpp: the global fixed_beam_value
    calibrate_north_value,  \* steerbf.cpp: the global calibrate_north_value
    steer             \* the latest steerbf_config::process call and its locals

fifoVars == <<buf, write_ptr, read_ptr>>
lfVars   == <<atomic_write_ptr, atomic_read_ptr, writer, reader>>
drVars   == <<drifter, offered, mid, run>>
histVars == <<written, readout, last, outbuf>>
rtVars   == <<nodes, root, current, producer, consumer, rtlog>>
dbVars   == <<dblbuf, dblog>>
lwVars   == <<sync, side>>
sbVars   == <<fixed_beam_value, calibrate_north_value, steer>>
vars     == <<fifoVars, lfVars, drVars, histVars, rtVars, dbVars, lwVars, sbVars>>

\* T(): the value the storage is filled with on construction, and null_data.
null_data == 0
\* Content of a position of the caller's buffer that read has not assigned.
Untouched == 0 - 1

NoCall == [op |-> "none", count |-> 0, ok |-> TRUE]
NoStart == [started |-> FALSE]
\* The value of run outside the runs that alternate write and read.
NoRun == [w |-> 0, r |-> 0]

Min(a, b) == IF a <= b THEN a ELSE b

IsPrefix(s, t) == Len(s) <= Len(t) /\ \A i \in 1..Len(s) : s[i] = t[i]

\* The elements number from + 1 .. from + count, as the array data of a write.
Data(from, count) == [i \in 1..count |-> from + i]

\* The caller's target buffer of a read of count elements, before the call.
FreshOut(count) == [i \in 1..count |-> Untouched]

(***************************************************************************)
(* mha_fifo_t                                                              *)
(***************************************************************************)

\* mha_fifo_t<T>::mha_fifo_t: max_fill_count + 1 copies of t, both cursors
\* at buf.data().
FifoNew(max_fill_count, t) ==
    [buf |-> [i \in 1..(max_fill_count + 1) |-> t], write_ptr |-> 1, read_ptr |-> 1]

get_max_fill_count(b) == Len(b) - 1

get_fill_count_NoWrap(wp, rp, size) == wp - rp

\* mha_fifo_t<T>::get_fill_count(wp, rp), with size = buf.size()
get_fill_count(wp, rp, size) ==
    IF wp >= rp THEN wp - rp ELSE wp + size - rp

\* mha_fifo_t<T>::get_fill_count() of the base class
fifo_fill_count(b, wp, rp) == get_fill_count(wp, rp, Len(b))

\* mha_fifo_t<T>::get_available_space() of the base class
fifo_available_space(b, wp, rp) == get_max_fill_count(b) - fifo_fill_count(b, wp, rp)

NextPtr_NoWrap(p, size) == IF p >= size - 1 THEN 1 ELSE p + 1

\* The cursor advance of the copy loops of write and read: back to
\* &buf.front() from &buf.back(), else the next element.
NextPtr(p, size) == IF p >= size THEN 1 ELSE p + 1

\* The k-th slot after p, following the cursor advance.
RECURSIVE Slot(_, _, _)
Slot(p, k, size) == IF k = 0 THEN p ELSE Slot(NextPtr(p, size), k - 1, size)

WriteThrows_OffByOne(count, available_space) == count > available_space + 1

\* The check of mha_fifo_t<T>::write
WriteThrows(count, available_space) == count > available_space

ReadThrows_OffByOne(count, available_data) == count > available_data + 1

\* The check of mha_fifo_t<T>::read
ReadThrows(count, available_data) == count > available_data

\* The copy loop of mha_fifo_t<T>::write
RECURSIVE WriteLoop(_, _, _)
WriteLoop(b, wp, data) ==
    IF data = <<>> THEN [buf |-> b, write_ptr |-> wp]
    ELSE WriteLoop([b EXCEPT ![wp] = Head(data)], NextPtr(wp, Len(b)), Tail(data))

\* The copy loop of mha_fifo_t<T>::read; out is the target buffer and at the
\* position in it that outbuf points to.
RECURSIVE ReadLoop(_, _, _, _, _)
ReadLoop(b, rp, count, out, at) ==
    IF count = 0 THEN [out |-> out, read_ptr |-> rp]
    ELSE ReadLoop(b, NextPtr(rp, Len(b)), count - 1, [out EXCEPT ![at] = b[rp]], at + 1)

\* mha_fifo_t<T>::write(data, count).  available_space is the result of the
\* virtual get_available_space() of the object's class.
fifo_write(b, wp, data, available_space) ==
    IF WriteThrows(Len(data), available_space)
    THEN [threw |-> TRUE, buf |-> b, write_ptr |-> wp]
    ELSE LET w == WriteLoop(b, wp, data)
         IN  [threw |-> FALSE, buf |-> w.buf, write_ptr |-> w.write_ptr]

\* mha_fifo_t<T>::read(outbuf, count).  available_data is the result of the
\* virtual get_fill_count() of the object's class; out is the caller's
\* array and at the position in it that outbuf points to.
fifo_read(b, rp, count, out, at, available_data) ==
    IF ReadThrows(count, available_data)
    THEN [threw |-> TRUE, out |-> out, read_ptr |-> rp]
    ELSE LET r == ReadLoop(b, rp, count, out, at)
         IN  [threw |-> FALSE, out |-> r.out, read_ptr |-> r.read_ptr]

\* The elements of out that a read has assigned, in order.
Delivered(out) == SelectSeq(out, LAMBDA x : x # Untouched)

(***************************************************************************)
(* States of the classes that a specification does not use.                *)
(***************************************************************************)

LFIdle ==
    /\ atomic_write_ptr = 1
    /\ atomic_read_ptr = 1
    /\ writer = [pc |-> "idle"]
    /\ reader = [pc |-> "idle"]

DrIdle ==
    /\ drifter = [unused |-> TRUE]
    /\ offered = 0
    /\ mid = NoStart
    /\ run = NoRun

RTIdle ==
    /\ nodes = <<>>
    /\ root = 0
    /\ current = 0
    /\ producer = [pc |-> "idle"]
    /\ consumer = [pc |-> "idle"]
    /\ rtlog = [unused |-> TRUE]

DblIdle ==
    /\ dblbuf = [unused |-> TRUE]
    /\ dblog = [unused |-> TRUE]

LwIdle ==
    /\ sync = [unused |-> TRUE]
    /\ side = [unused |-> TRUE]

SbIdle ==
    /\ fixed_beam_value = 0
    /\ calibrate_north_value = 0
    /\ steer = [unused |-> TRUE]

(***************************************************************************)
(* The ring buffer mha_fifo_t used on its own, from one thread.            *)
(***************************************************************************)

FifoInit ==
    /\ \E max_fill_count \in 1..MaxCap :
          LET f == FifoNew(max_fill_count, null_data)
          IN  buf = f.buf /\ write_ptr = f.write_ptr /\ read_ptr = f.read_ptr
    /\ written = <<>>
    /\ readout = <<>>
    /\ last = NoCall
    /\ outbuf = <<>>
    /\ LFIdle
    /\ RTIdle
    /\ DblIdle
    /\ LwIdle
    /\ SbIdle
    /\ DrIdle

\* A call write(data, count); a call that stores its data is made while the
\* run has elements left to offer.
Write ==
    \E count \in 0..MaxCount :
       LET data == Data(Len(written), count)
           w == fifo_write(buf, write_ptr, data,
                           fifo_available_space(buf, write_ptr, read_ptr))
       IN  /\ w.threw \/ Len(written) + count <= MaxWritten
           /\ buf' = w.buf
           /\ write_ptr' = w.write_ptr
           /\ written' = IF w.threw THEN written ELSE written \o data
           /\ last' = [op |-> "write", count |-> count, ok |-> ~w.threw]
           /\ UNCHANGED <<read_ptr, readout, outbuf, lfVars, drVars, rtVars, dbVars, lwVars, sbVars>>

\* A call read(outbuf, count).
Read ==
    \E count \in 0..MaxCount :
       LET r == fifo_read(buf, read_ptr, count, FreshOut(count), 1,
                          fifo_fill_count(buf, write_ptr, read_ptr))
       IN  /\ read_ptr' = r.read_ptr
           /\ outbuf' = r.out
           /\ readout' = readout \o Delivered(r.out)
           /\ last' = [op |-> "read", count |-> count, ok |-> ~r.threw]
           /\ UNCHANGED <<buf, write_ptr, written, lfVars, drVars, rtVars, dbVars, lwVars, sbVars>>

FifoNext == Write \/ Read

SpecFifo == FifoInit /\ [][FifoNext]_vars

(***************************************************************************)
(* Properties of mha_fifo_t, checked under SpecFifo.                       *)
(***************************************************************************)

\* The slots that hold the elements written and not yet read, oldest first.
StoredSlots == [k \in 1..(Len(written) - Len(readout)) |-> Slot(read_ptr, k - 1, Len(buf))]

\* C1: round trip.  The elements returned by read so far are a prefix of the
\* elements passed to write so far, in the same order, and the elements
\* written and not yet read are still stored, in order, from the read cursor
\* on (none lost), also after the cursors have wrapped around.
C1_RoundTrip ==
    /\ IsPrefix(readout, written)
    /\ \A k \in 1..(Len(written) - Len(readout)) :
          buf[StoredSlots[k]] = written[Len(readout) + k]

\* All elements of the run went through a FIFO smaller than the run and came
\* out, the write cursor having wrapped around.
C1_Witness ==
    /\ Len(written) = MaxWritten
    /\ readout = written
    /\ Len(buf) < MaxWritten
    /\ last.op = "read" /\ last.ok /\ last.count > 1

\* C2: in every state reached by successful and failed calls,
\* 0 <= fill count <= max fill count, fill count + available space = max
\* fill count, and the fill count is (write cursor - read cursor) modulo
\* (capacity + 1), which is the number of elements written and not yet read.
C2_FillInvariant ==
    LET fill  == fifo_fill_count(buf, write_ptr, read_ptr)
        space == fifo_available_space(buf, write_ptr, read_ptr)
        max   == get_max_fill_count(buf)
    IN  /\ 0 <= fill /\ fill <= max
        /\ 0 <= space /\ space <= max
        /\ fill + space = max
        /\ fill = (write_ptr - read_ptr) % (max + 1)
        /\ fill = Len(written) - Len(readout)

\* A full FIFO whose write cursor has wrapped around behind the read cursor,
\* right after a failed call.
C2_Witness ==
    /\ write_ptr < read_ptr
    /\ fifo_fill_count(buf, write_ptr, read_ptr) = get_max_fill_count(buf)
    /\ ~last.ok

\* What one write call does, by the claim C3.
C3_WriteStep ==
    last'.op = "write" =>
        LET count == last'.count
            size  == Len(buf)
            space == fifo_available_space(buf, write_ptr, read_ptr)
            fill  == fifo_fill_count(buf, write_ptr, read_ptr)
            fill2 == fifo_fill_count(buf', write_ptr', read_ptr')
            dest  == {Slot(write_ptr, k, size) : k \in 0..(count - 1)}
        IN  IF count > space
            THEN /\ ~last'.ok
                 /\ buf' = buf /\ write_ptr' = write_ptr /\ read_ptr' = read_ptr
            ELSE /\ last'.ok
                 /\ fill2 = fill + count
                 /\ count = space => fill2 = get_max_fill_count(buf)
                 /\ Cardinality(dest) = count
                 /\ \A k \in 0..(count - 1) :
                       buf'[Slot(write_ptr, k, size)] = Len(written) + k + 1
                 /\ \A i \in 1..size : i \notin dest => buf'[i] = buf[i]
                 /\ write_ptr' = Slot(write_ptr, count, size)
                 /\ read_ptr' = read_ptr

\* C3: a write of more than the available space fails and changes neither
\* cursor nor any stored element; a write of at most the available space
\* succeeds, stores exactly its count elements and raises the fill count by
\* count (a write of exactly the available space leaves the FIFO full).
C3_Write == [][C3_WriteStep]_vars

\* A write that fits the capacity failed on a FIFO that holds elements.
C3_Witness ==
    /\ last.op = "write" /\ ~last.ok
    /\ last.count <= get_max_fill_count(buf)
    /\ fifo_fill_count(buf, write_ptr, read_ptr) > 0

\* What one read call does, by the claim C4.
C4_ReadStep ==
    last'.op = "read" =>
        LET count == last'.count
            fill  == fifo_fill_count(buf, write_ptr, read_ptr)
            fill2 == fifo_fill_count(buf', write_ptr', read_ptr')
        IN  IF count > fill
            THEN /\ ~last'.ok
                 /\ read_ptr' = read_ptr /\ write_ptr' = write_ptr
                 /\ fill2 = fill
                 /\ \A i \in 1..count : outbuf'[i] = Untouched
                 /\ readout' = readout
            ELSE /\ last'.ok
                 /\ fill2 = fill - count
                 /\ Len(outbuf') = count
                 /\ \A i \in 1..count : outbuf'[i] # Untouched
                 /\ write_ptr' = write_ptr

\* C4: a read of more than the fill count fails, changes neither cursor nor
\* the fill count and delivers no element; a read of at most the fill count
\* succeeds and lowers the fill count by count.
C4_Read == [][C4_ReadStep]_vars

\* A read that fits the capacity failed on a FIFO that holds elements.
C4_Witness ==
    /\ last.op = "read" /\ ~last.ok
    /\ last.count <= get_max_fill_count(buf)
    /\ fifo_fill_count(buf, write_ptr, read_ptr) > 0

(***************************************************************************)
(* The lock-free FIFO mha_fifo_lf_t: one writer thread, one reader thread. *)
(* A thread's step is a load or a store of an atomic cursor, or the copy   *)
(* of one element together with the advance of the thread's own cursor     *)
(* (write_ptr is accessed by the writer thread only, read_ptr by the       *)
(* reader thread only).  The atomics are accessed with the default         *)
(* sequentially consistent order.                                          *)
(***************************************************************************)

\* mha_fifo_lf_t::get_fill_count(): loads atomic_write_ptr
lf_get_fill_count ==
    get_fill_count(atomic_write_ptr, read_ptr, Len(buf))

lf_get_available_space_OffByOne ==
    Len(buf) - get_fill_count(write_ptr, atomic_read_ptr, Len(buf))

\* mha_fifo_lf_t::get_available_space(): loads atomic_read_ptr
lf_get_available_space ==
    get_max_fill_count(buf) - get_fill_count(write_ptr, atomic_read_ptr, Len(buf))

WriterIdle == [pc |-> "idle", data |-> <<>>, obs |-> 0, count |-> 0, err |-> FALSE]
ReaderIdle == [pc |-> "idle", todo |-> 0, obs |-> 0, count |-> 0, err |-> FALSE]

LFInit ==
    /\ \E max_fill_count \in 1..MaxCap :
          LET f == FifoNew(max_fill_count, null_data)
          IN  /\ buf = f.buf /\ write_ptr = f.write_ptr /\ read_ptr = f.read_ptr
              /\ atomic_write_ptr = f.write_ptr
              /\ atomic_read_ptr = f.read_ptr
    /\ writer = WriterIdle
    /\ reader = ReaderIdle
    /\ written = <<>>
    /\ readout = <<>>
    /\ last = NoCall
    /\ outbuf = <<>>
    /\ DrIdle
    /\ RTIdle
    /\ DblIdle
    /\ LwIdle
    /\ SbIdle

\* The writer thread calls get_available_space().
LFWriterQuery ==
    /\ writer.pc = "idle"
    /\ writer' = [writer EXCEPT !.pc = "ready", !.obs = lf_get_available_space,
                                !.err = FALSE]
    /\ UNCHANGED <<fifoVars, atomic_write_ptr, atomic_read_ptr, reader, drVars, rtVars, dbVars, lwVars, sbVars, histVars>>

LFWriteCall_PublishFirst ==
    /\ writer.pc = "ready"
    /\ \E count \in 0..MaxCount :
          IF WriteThrows(count, lf_get_available_space)
          THEN /\ writer' = [writer EXCEPT !.pc = "idle", !.count = count, !.err = TRUE]
               /\ UNCHANGED atomic_write_ptr
          ELSE /\ Len(written) + count <= MaxWritten
               /\ writer' = [writer EXCEPT !.pc = "copy", !.count = count,
                                           !.data = Data(Len(written), count)]
               /\ atomic_write_ptr' = Slot(write_ptr, count, Len(buf))
    /\ UNCHANGED <<fifoVars, atomic_read_ptr, reader, drVars, rtVars, dbVars, lwVars, sbVars, histVars>>

\* The writer thread enters write(data, count): the space check of
\* mha_fifo_t::write, through the virtual get_available_space().
LFWriteCall ==
    /\ writer.pc = "ready"
    /\ \E count \in 0..MaxCount :
          IF WriteThrows(count, lf_get_available_space)
          THEN writer' = [writer EXCEPT !.pc = "idle", !.count = count, !.err = TRUE]
          ELSE /\ Len(written) + count <= MaxWritten
               /\ writer' = [writer EXCEPT !.pc = "copy", !.count = count,
                                           !.data = Data(Len(written), count)]
    /\ UNCHANGED <<fifoVars, atomic_write_ptr, atomic_read_ptr, reader, drVars, rtVars, dbVars, lwVars, sbVars, histVars>>

\* One iteration of the copy loop of mha_fifo_t::write.
LFWriteCopy ==
    /\ writer.pc = "copy" /\ writer.data # <<>>
    /\ LET w == WriteLoop(buf, write_ptr, <<Head(writer.data)>>)
       IN  buf' = w.buf /\ write_ptr' = w.write_ptr
    /\ written' = Append(written, Head(writer.data))
    /\ writer' = [writer EXCEPT !.data = Tail(writer.data)]
    /\ UNCHANGED <<read_ptr, atomic_write_ptr, atomic_read_ptr, reader, drVars, rtVars, dbVars, lwVars, sbVars,
                   readout, last, outbuf>>

\* atomic_write_ptr.store(get_write_ptr()) after the copy loop; write returns.
LFWriteStore ==
    /\ writer.pc = "copy" /\ writer.data = <<>>
    /\ atomic_write_ptr' = write_ptr
    /\ writer' = [writer EXCEPT !.pc = "idle"]
    /\ UNCHANGED <<fifoVars, atomic_read_ptr, reader, drVars, rtVars, dbVars, lwVars, sbVars, histVars>>

\* The reader thread calls get_fill_count().
LFReaderQuery ==
    /\ reader.pc = "idle"
    /\ reader' = [reader EXCEPT !.pc = "ready", !.obs = lf_get_fill_count, !.err = FALSE]
    /\ UNCHANGED <<fifoVars, atomic_write_ptr, atomic_read_ptr, writer, drVars, rtVars, dbVars, lwVars, sbVars, histVars>>

LFReadCall_PublishFirst ==
    /\ reader.pc = "ready"
    /\ \E count \in 0..MaxCount :
          IF ReadThrows(count, lf_get_fill_count)
          THEN /\ reader' = [reader EXCEPT !.pc = "idle", !.count = count, !.err = TRUE]
               /\ UNCHANGED <<outbuf, atomic_read_ptr>>
          ELSE /\ reader' = [reader EXCEPT !.pc = "copy", !.count = count, !.todo = count]
               /\ outbuf' = FreshOut(count)
               /\ atomic_read_ptr' = Slot(read_ptr, count, Len(buf))
    /\ UNCHANGED <<fifoVars, atomic_write_ptr, writer, drVars, rtVars, dbVars, lwVars, sbVars, written, readout, last>>

\* The reader thread enters read(outbuf, count): the data check of
\* mha_fifo_t::read, through the virtual get_fill_count().
LFReadCall ==
    /\ reader.pc = "ready"
    /\ \E count \in 0..MaxCount :
          IF ReadThrows(count, lf_get_fill_count)
          THEN /\ reader' = [reader EXCEPT !.pc = "idle", !.count = count, !.err = TRUE]
               /\ UNCHANGED outbuf
          ELSE /\ reader' = [reader EXCEPT !.pc = "copy", !.count = count, !.todo = count]
               /\ outbuf' = FreshOut(count)
    /\ UNCHANGED <<fifoVars, atomic_write_ptr, atomic_read_ptr, writer, drVars, rtVars, dbVars, lwVars, sbVars,
                   written, readout, last>>

\* One iteration of the copy loop of mha_fifo_t::read.
LFReadCopy ==
    /\ reader.pc = "copy" /\ reader.todo > 0
    /\ LET r == ReadLoop(buf, read_ptr, 1, outbuf, reader.count - reader.todo + 1)
       IN  /\ outbuf' = r.out
           /\ read_ptr' = r.read_ptr
           /\ readout' = Append(readout, buf[read_ptr])
    /\ reader' = [reader EXCEPT !.todo = reader.todo - 1]
    /\ UNCHANGED <<buf, write_ptr, atomic_write_ptr, atomic_read_ptr, writer, drVars, rtVars, dbVars, lwVars, sbVars,
                   written, last>>

\* atomic_read_ptr.store(get_read_ptr()) after the copy loop; read returns.
LFReadStore ==
    /\ reader.pc = "copy" /\ reader.todo = 0
    /\ atomic_read_ptr' = read_ptr
    /\ reader' = [reader EXCEPT !.pc = "idle"]
    /\ UNCHANGED <<fifoVars, atomic_write_ptr, writer, drVars, rtVars, dbVars, lwVars, sbVars, histVars>>

LFNext ==
    \/ LFWriterQuery
    \/ LFWriteCall
    \/ LFWriteCopy
    \/ LFWriteStore
    \/ LFReaderQuery
    \/ LFReadCall
    \/ LFReadCopy
    \/ LFReadStore

SpecLF == LFInit /\ [][LFNext]_vars

(***************************************************************************)
(* Properties of mha_fifo_lf_t, checked under SpecLF.                      *)
(***************************************************************************)

\* Number of elements stored by the write calls that have published the
\* write cursor: all elements copied, except those of a call still running.
PublishedCount ==
    Len(written) - (IF writer.pc = "copy" THEN writer.count - Len(writer.data) ELSE 0)

\* C5: at every point of every interleaving, when the reader's
\* get_fill_count() returns n, the n slots from the read cursor on hold, in
\* order, the next n elements the reader has not read, each stored by a
\* write call that had finished its copy loop when it published the write
\* cursor; a running read never has more elements left to copy than that.
C5_FillCountSafe ==
    LET n == lf_get_fill_count
    IN  /\ 0 <= n /\ n <= get_max_fill_count(buf)
        /\ Len(readout) + n <= PublishedCount
        /\ \A k \in 0..(n - 1) :
              buf[Slot(read_ptr, k, Len(buf))] = written[Len(readout) + k + 1]
        /\ reader.pc = "copy" => reader.todo <= n

\* The reader is told of two readable elements, which lie across the end of
\* the storage, while the writer is inside the copy loop of a later write.
C5_Witness ==
    /\ reader.pc = "ready" /\ reader.obs >= 2
    /\ reader.obs = lf_get_fill_count
    /\ read_ptr = Len(buf)
    /\ writer.pc = "copy" /\ writer.data # <<>>

\* C6: at every point of every interleaving, when the writer's
\* get_available_space() returns n, none of the n slots from the write
\* cursor on holds an element that the reader has not yet copied out; a
\* running write never has more elements left to copy than that, so it never
\* overwrites an element the reader has still to read.
C6_SpaceSafe ==
    LET n == lf_get_available_space
        unread == {StoredSlots[k] : k \in 1..(Len(written) - Len(readout))}
    IN  /\ 0 <= n /\ n <= get_max_fill_count(buf)
        /\ Len(written) - Len(readout) + n <= get_max_fill_count(buf)
        /\ \A k \in 0..(n - 1) : Slot(write_ptr, k, Len(buf)) \notin unread
        /\ writer.pc = "copy" => Len(writer.data) <= n

\* The writer is told of free space on a FIFO that has been full, while the
\* reader is in the middle of copying elements out.
C6_Witness ==
    /\ writer.pc = "ready" /\ writer.obs >= 1
    /\ writer.obs = lf_get_available_space
    /\ Len(written) > get_max_fill_count(buf)
    /\ reader.pc = "copy" /\ reader.todo > 0 /\ reader.todo < reader.count

\* C7: in every interleaving, a call whose count is within the value the
\* calling thread observed (get_available_space() for the writer,
\* get_fill_count() for the reader) raises no capacity error, and the
\* elements the reader obtained are a prefix of the elements written: same
\* order, none lost, none duplicated, none stale.
C7_EndToEnd ==
    /\ writer.err => writer.count > writer.obs
    /\ reader.err => reader.count > reader.obs
    /\ IsPrefix(readout, written)
    /\ \A i \in 1..Len(readout) : readout[i] = i

\* The whole run of elements has passed through a FIFO smaller than the run,
\* the last of them in a read of several elements.
C7_Witness ==
    /\ Len(readout) = MaxWritten
    /\ readout = written
    /\ Len(buf) < MaxWritten
    /\ reader.pc = "idle" /\ ~reader.err /\ reader.count > 1
    /\ ~writer.err

(***************************************************************************)
(* The drifting FIFO mha_drifter_fifo_t.  Its methods are operators on the *)
(* object o: the fields of the class together with buf, write_ptr and      *)
(* read_ptr of its base class.                                             *)
(***************************************************************************)

\* mha_drifter_fifo_t<T>::mha_drifter_fifo_t
DrifterNew(min_fill_count, des_fill_count, max_fill_count) ==
    FifoNew(max_fill_count, null_data) @@
    [minimum_fill_count |-> min_fill_count,
     desired_fill_count |-> des_fill_count,
     writer_started |-> FALSE,
     reader_started |-> FALSE,
     writer_xruns_total |-> 0,
     reader_xruns_total |-> 0,
     writer_xruns_since_start |-> 0,
     reader_xruns_since_start |-> 0,
     writer_xruns_in_succession |-> 0,
     reader_xruns_in_succession |-> 0,
     maximum_writer_xruns_in_succession_before_stop |-> 10,
     maximum_reader_xruns_in_succession_before_stop |-> 10,
     startup_zeros |-> des_fill_count]

\* mha_drifter_fifo_t<T>::get_fill_count
dr_get_fill_count(o) ==
    fifo_fill_count(o.buf, o.write_ptr, o.read_ptr) + o.startup_zeros

dr_get_available_space_NoZeros(o) ==
    fifo_available_space(o.buf, o.write_ptr, o.read_ptr)

\* mha_drifter_fifo_t<T>::get_available_space
dr_get_available_space(o) ==
    fifo_available_space(o.buf, o.write_ptr, o.read_ptr) - o.startup_zeros

stop_WriterOnly(o) == [o EXCEPT !.writer_started = FALSE]

\* mha_drifter_fifo_t<T>::stop
stop(o) == [o EXCEPT !.writer_started = FALSE, !.reader_started = FALSE]

starting_NoStartupZeros(o) ==
    [o EXCEPT !.read_ptr = o.write_ptr,
              !.startup_zeros = 0,
              !.reader_xruns_since_start = 0,
              !.writer_xruns_since_start = 0,
              !.reader_xruns_in_succession = 0,
              !.writer_xruns_in_succession = 0]

starting_NoClear(o) ==
    [o EXCEPT !.startup_zeros = o.desired_fill_count,
              !.reader_xruns_since_start = 0,
              !.writer_xruns_since_start = 0,
              !.reader_xruns_in_succession = 0,
              !.writer_xruns_in_succession = 0]

\* mha_drifter_fifo_t<T>::starting; mha_fifo_t::clear() is read_ptr = write_ptr
starting(o) ==
    [o EXCEPT !.read_ptr = o.write_ptr,
              !.startup_zeros = o.desired_fill_count,
              !.reader_xruns_since_start = 0,
              !.writer_xruns_since_start = 0,
              !.reader_xruns_in_succession = 0,
              !.writer_xruns_in_succession = 0]

WriterXrun_NeverStops(o, short) ==
    IF short
    THEN [o EXCEPT !.writer_xruns_total = @ + 1,
                   !.writer_xruns_since_start = @ + 1,
                   !.writer_xruns_in_succession = @ + 1]
    ELSE [o EXCEPT !.writer_xruns_in_succession = 0]

WriterXrun_KeepsSuccession(o, short) ==
    IF short
    THEN LET x == [o EXCEPT !.writer_xruns_total = @ + 1,
                            !.writer_xruns_since_start = @ + 1,
                            !.writer_xruns_in_succession = @ + 1]
         IN  IF x.writer_xruns_in_succession
                  > x.maximum_writer_xruns_in_succession_before_stop
             THEN stop(x) ELSE x
    ELSE o

WriterXrun_StopAtLimit(o, short) ==
    IF short
    THEN LET x == [o EXCEPT !.writer_xruns_total = @ + 1,
                            !.writer_xruns_since_start = @ + 1,
                            !.writer_xruns_in_succession = @ + 1]
         IN  IF x.writer_xruns_in_succession
                  >= x.maximum_writer_xruns_in_succession_before_stop
             THEN stop(x) ELSE x
    ELSE [o EXCEPT !.writer_xruns_in_succession = 0]

\* The xrun accounting at the end of write: a short transfer counts an xrun
\* and stops past the limit, a full one resets the succession counter.
WriterXrun(o, short) ==
    IF short
    THEN LET x == [o EXCEPT !.writer_xruns_total = @ + 1,
                            !.writer_xruns_since_start = @ + 1,
                            !.writer_xruns_in_succession = @ + 1]
         IN  IF x.writer_xruns_in_succession
                  > x.maximum_writer_xruns_in_succession_before_stop
             THEN stop(x) ELSE x
    ELSE [o EXCEPT !.writer_xruns_in_succession = 0]

\* The xrun accounting at the end of read.
ReaderXrun(o, short) ==
    IF short
    THEN LET x == [o EXCEPT !.reader_xruns_total = @ + 1,
                            !.reader_xruns_since_start = @ + 1,
                            !.reader_xruns_in_succession = @ + 1]
         IN  IF x.reader_xruns_in_succession
                  > x.maximum_reader_xruns_in_succession_before_stop
             THEN stop(x) ELSE x
    ELSE [o EXCEPT !.reader_xruns_in_succession = 0]

\* The head of write: starting() and writer_started = true on the first call.
WriteStart(o) ==
    IF o.writer_started = FALSE
    THEN [starting(o) EXCEPT !.writer_started = TRUE]
    ELSE o

\* The head of read: starting() and reader_started = true on the first call.
ReadStart(o) ==
    IF o.reader_started = FALSE
    THEN [starting(o) EXCEPT !.reader_started = TRUE]
    ELSE o

DrRunning_Either(o) == o.reader_started \/ o.writer_started

\* The condition reader_started && writer_started of write and read.
DrRunning(o) == o.reader_started /\ o.writer_started

\* mha_drifter_fifo_t<T>::write(data, count).  The result holds the object
\* after the call, the object right after the head of the call (mid), the
\* number of elements stored, and whether mha_fifo_t::write threw.
drifter_write(o, data) ==
    LET count == Len(data)
        o1 == WriteStart(o)
    IN  IF DrRunning(o1)
        THEN LET transferred_count == Min(dr_get_available_space(o1), count)
                 w == fifo_write(o1.buf, o1.write_ptr,
                                 SubSeq(data, 1, transferred_count),
                                 dr_get_available_space(o1))
                 o2 == [o1 EXCEPT !.buf = w.buf, !.write_ptr = w.write_ptr]
             IN  IF w.threw
                 THEN [obj |-> o1, mid |-> o1, stored |-> 0, threw |-> TRUE]
                 ELSE [obj |-> WriterXrun(o2, transferred_count < count),
                       mid |-> o1, stored |-> transferred_count, threw |-> FALSE]
        ELSE [obj |-> o1, mid |-> o1, stored |-> 0, threw |-> FALSE]

ZeroLoop_NoZeros(startup_zeros, out, z, transferred_count) ==
    [startup_zeros |-> startup_zeros, out |-> out, z |-> z]

\* The loop of read that delivers startup zeros: z is transferred_zeros_count.
RECURSIVE ZeroLoop(_, _, _, _)
ZeroLoop(startup_zeros, out, z, transferred_count) ==
    IF startup_zeros > 0 /\ z < transferred_count
    THEN ZeroLoop(startup_zeros - 1, [out EXCEPT ![z + 1] = null_data], z + 1,
                  transferred_count)
    ELSE [startup_zeros |-> startup_zeros, out |-> out, z |-> z]

\* mha_drifter_fifo_t<T>::read(buf, count); out is the caller's array.  The
\* result holds the object after the call, the object right after the head
\* of the call (mid), the caller's array, the number of elements transferred
\* and whether mha_fifo_t::read threw.
drifter_read(o, count, out) ==
    LET o1 == ReadStart(o)
    IN  IF DrRunning(o1)
        THEN LET transferred_count ==
                     Min(dr_get_fill_count(o1) - o1.minimum_fill_count, count)
                 zl == ZeroLoop(o1.startup_zeros, out, 0, transferred_count)
                 o2 == [o1 EXCEPT !.startup_zeros = zl.startup_zeros]
                 r == fifo_read(o2.buf, o2.read_ptr, transferred_count - zl.z,
                                zl.out, zl.z + 1, dr_get_fill_count(o2))
                 o3 == [o2 EXCEPT !.read_ptr = r.read_ptr]
             IN  IF r.threw
                 THEN [obj |-> o2, mid |-> o1, out |-> zl.out,
                       transferred |-> zl.z, threw |-> TRUE]
                 ELSE [obj |-> ReaderXrun(o3, transferred_count < count),
                       mid |-> o1, out |-> r.out,
                       transferred |-> transferred_count, threw |-> FALSE]
        ELSE [obj |-> o1, mid |-> o1,
              out |-> [i \in 1..count |-> null_data],
              transferred |-> 0, threw |-> FALSE]

\* The fields mha_drifter_fifo_t adds to its base class.
DrFields ==
    {"minimum_fill_count", "desired_fill_count", "writer_started", "reader_started",
     "writer_xruns_total", "reader_xruns_total",
     "writer_xruns_since_start", "reader_xruns_since_start",
     "writer_xruns_in_succession", "reader_xruns_in_succession",
     "maximum_writer_xruns_in_succession_before_stop",
     "maximum_reader_xruns_in_succession_before_stop", "startup_zeros"}

\* The object in the current state.
DrObj == drifter @@ [buf |-> buf, write_ptr |-> write_ptr, read_ptr |-> read_ptr]

\* The next state holds the object o.
DrSet(o) ==
    /\ drifter' = [f \in DrFields |-> o[f]]
    /\ buf' = o.buf
    /\ write_ptr' = o.write_ptr
    /\ read_ptr' = o.read_ptr

\* What the latest call's start bookkeeping left: the stored fill count, the
\* startup zeros and the xrun counters right after starting().
StartRecord(o) ==
    [started |-> TRUE,
     fill |-> fifo_fill_count(o.buf, o.write_ptr, o.read_ptr),
     startup_zeros |-> o.startup_zeros,
     writer_xruns_since_start |-> o.writer_xruns_since_start,
     reader_xruns_since_start |-> o.reader_xruns_since_start,
     writer_xruns_in_succession |-> o.writer_xruns_in_succession,
     reader_xruns_in_succession |-> o.reader_xruns_in_succession,
     writer_xruns_total |-> o.writer_xruns_total,
     reader_xruns_total |-> o.reader_xruns_total]

\* Construction with minimum_fill_count <= desired_fill_count <= capacity.
DrInit ==
    /\ \E max_fill_count \in 1..DrMaxCap :
       \E des_fill_count \in 0..max_fill_count :
       \E min_fill_count \in 0..des_fill_count :
          LET o == DrifterNew(min_fill_count, des_fill_count, max_fill_count)
          IN  /\ drifter = [f \in DrFields |-> o[f]]
              /\ buf = o.buf /\ write_ptr = o.write_ptr /\ read_ptr = o.read_ptr
    /\ offered = 0
    /\ mid = NoStart
    /\ written = <<>>
    /\ readout = <<>>
    /\ last = NoCall
    /\ outbuf = <<>>
    /\ run = NoRun
    /\ LFIdle
    /\ RTIdle
    /\ DblIdle
    /\ LwIdle
    /\ SbIdle

\* A call write(data, count) with the next count elements of the run.
DrWrite ==
    \E count \in 0..DrMaxCount :
       \E w \in {drifter_write(DrObj, Data(offered, count))} :
           /\ offered + count <= DrMaxOffered
           /\ w.obj.writer_xruns_total <= MaxXruns
           /\ DrSet(w.obj)
           /\ offered' = offered + count
           /\ mid' = IF drifter.writer_started THEN NoStart ELSE StartRecord(w.mid)
           /\ last' = [op |-> "write", count |-> count, ok |-> ~w.threw]
           /\ outbuf' = <<>>
           /\ UNCHANGED <<written, readout, lfVars, run, rtVars, dbVars, lwVars, sbVars>>

\* A call read(buf, count).
DrRead ==
    \E count \in 0..DrMaxCount :
       \E r \in {drifter_read(DrObj, count, FreshOut(count))} :
           /\ r.obj.reader_xruns_total <= MaxXruns
           /\ DrSet(r.obj)
           /\ outbuf' = r.out
           /\ mid' = IF drifter.reader_started THEN NoStart ELSE StartRecord(r.mid)
           /\ last' = [op |-> "read", count |-> count, ok |-> ~r.threw]
           /\ UNCHANGED <<offered, written, readout, lfVars, run, rtVars, dbVars, lwVars, sbVars>>

\* An explicit call of stop().
DrStop ==
    /\ DrSet(stop(DrObj))
    /\ mid' = NoStart
    /\ last' = [op |-> "stop", count |-> 0, ok |-> TRUE]
    /\ outbuf' = <<>>
    /\ UNCHANGED <<offered, written, readout, lfVars, run, rtVars, dbVars, lwVars, sbVars>>

\* An explicit call of starting().
DrStarting ==
    /\ DrSet(starting(DrObj))
    /\ mid' = NoStart
    /\ last' = [op |-> "starting", count |-> 0, ok |-> TRUE]
    /\ outbuf' = <<>>
    /\ UNCHANGED <<offered, written, readout, lfVars, run, rtVars, dbVars, lwVars, sbVars>>

DrNext == DrWrite \/ DrRead \/ DrStop \/ DrStarting

SpecDrift == DrInit /\ [][DrNext]_vars

(***************************************************************************)
(* Properties of mha_drifter_fifo_t, checked under SpecDrift.              *)
(***************************************************************************)

\* The stored fill count: the elements in buf, startup zeros not counted.
StoredFill == fifo_fill_count(buf, write_ptr, read_ptr)

\* The fields after the start bookkeeping of a call made in this state.
AfterStarting ==
    [drifter EXCEPT !.startup_zeros = drifter.desired_fill_count,
                    !.writer_xruns_since_start = 0,
                    !.reader_xruns_since_start = 0,
                    !.writer_xruns_in_succession = 0,
                    !.reader_xruns_in_succession = 0]

\* This step is a write that stored no element and whose only effects are
\* the start bookkeeping and writer_started = true, if it was false.
WriteDropsAll ==
    /\ buf' = buf
    /\ write_ptr' = write_ptr
    /\ StoredFill' = (IF drifter.writer_started THEN StoredFill ELSE 0)
    /\ IF drifter.writer_started
       THEN drifter' = drifter /\ read_ptr' = read_ptr
       ELSE drifter' = [AfterStarting EXCEPT !.writer_started = TRUE]

\* C8 as stated: a write made while the flags are not both true stores no
\* element, whatever the flag of the other side is.
C8_Original ==
    [][(last'.op = "write" /\ ~(drifter.writer_started /\ drifter.reader_started))
         => WriteDropsAll]_vars

\* What one write call made while the flags are not both true does.
C8_WriteStep ==
    (last'.op = "write" /\ ~(drifter.writer_started /\ drifter.reader_started)) =>
        IF ~drifter.reader_started
        THEN WriteDropsAll
        ELSE LET n == Min(last'.count,
                          get_max_fill_count(buf) - drifter.desired_fill_count)
             IN  /\ StoredFill' = n
                 /\ \A k \in 0..(n - 1) :
                       buf'[Slot(write_ptr, k, Len(buf))] = offered + k + 1
                 /\ mid'.started /\ mid'.fill = 0

\* C8, amended: a write made while reader_started is false stores no element
\* of its data; its only effects are the start bookkeeping and
\* writer_started = true, when writer_started was false.  A write made while
\* writer_started is false and reader_started is true does the start
\* bookkeeping and then stores the first min(count, available space)
\* elements of its data.
C8_Write == [][C8_WriteStep]_vars

\* A write with data was dropped, with start bookkeeping, on a FIFO that had
\* run and was stopped.
C8_Witness ==
    /\ last.op = "write" /\ last.count > 0
    /\ ~drifter.reader_started /\ drifter.writer_started
    /\ mid.started
    /\ drifter.writer_xruns_total + drifter.reader_xruns_total > 0

\* This step is a read that set all count output elements to the null value
\* and counted no xrun.
ReadAllSilence ==
    /\ Len(outbuf') = last'.count
    /\ \A i \in 1..last'.count : outbuf'[i] = null_data
    /\ drifter'.reader_xruns_total = drifter.reader_xruns_total
    /\ drifter'.writer_xruns_total = drifter.writer_xruns_total
    /\ drifter'.reader_xruns_since_start <= drifter.reader_xruns_since_start
    /\ drifter'.reader_xruns_in_succession <= drifter.reader_xruns_in_succession

\* C9 as stated: a read made while the flags are not both true sets all count
\* output elements to the null value and counts no xrun, whatever the flag of
\* the other side is.
C9_Original ==
    [][(last'.op = "read" /\ ~(drifter.writer_started /\ drifter.reader_started))
         => ReadAllSilence]_vars

\* C9, amended: a read made while writer_started is false sets all count
\* output elements to the null value, for every count, and counts no xrun.
C9_Read ==
    [][(last'.op = "read" /\ ~drifter.writer_started) => ReadAllSilence]_vars

\* A read of several elements returned silence, with start bookkeeping, on a
\* FIFO that had run and was stopped.
C9_Witness ==
    /\ last.op = "read" /\ last.count > 1
    /\ ~drifter.writer_started /\ drifter.reader_started
    /\ mid.started
    /\ \A i \in 1..last.count : outbuf[i] = null_data
    /\ drifter.writer_xruns_total + drifter.reader_xruns_total > 0

\* What a step does to the started flags and the start bookkeeping.
C10_Step ==
    LET wstart == last'.op = "write" /\ ~drifter.writer_started
        rstart == last'.op = "read" /\ ~drifter.reader_started
    IN  /\ (drifter'.writer_started /\ ~drifter.writer_started) => wstart
        /\ (drifter'.reader_started /\ ~drifter.reader_started) => rstart
        /\ (wstart \/ rstart) =>
              /\ mid'.started
              /\ mid'.fill = 0
              /\ mid'.startup_zeros = drifter.desired_fill_count
              /\ mid'.writer_xruns_since_start = 0
              /\ mid'.reader_xruns_since_start = 0
              /\ mid'.writer_xruns_total = drifter.writer_xruns_total
              /\ mid'.reader_xruns_total = drifter.reader_xruns_total
        /\ ((wstart /\ ~drifter.reader_started) \/ (rstart /\ ~drifter.writer_started)) =>
              /\ StoredFill' = 0
              /\ drifter'.startup_zeros = drifter.desired_fill_count
              /\ drifter'.writer_xruns_since_start = 0
              /\ drifter'.reader_xruns_since_start = 0
              /\ drifter'.writer_xruns_total = drifter.writer_xruns_total
              /\ drifter'.reader_xruns_total = drifter.reader_xruns_total
        /\ ~(wstart \/ rstart) => ~mid'.started

\* C10: a started flag goes from false to true only in the first write or
\* read after construction or after a stop, and every such call first empties
\* the stored content (stored fill count 0), sets startup_zeros to
\* desired_fill_count and both since-start xrun counters to 0, and leaves the
\* total xrun counters unchanged.
C10_Starting == [][C10_Step]_vars

\* A side starts again on a FIFO that has counted xruns, which the
\* bookkeeping kept in the total counters.
C10_Witness ==
    /\ mid.started
    /\ mid.writer_xruns_total + mid.reader_xruns_total > 0
    /\ mid.fill = 0 /\ mid.startup_zeros > 0
    /\ last.op = "read"

\* Both started flags are true: the FIFO is Running.
Running == drifter.writer_started /\ drifter.reader_started

\* What one write call made while Running does to the storage.
C11_WriteStep ==
    (last'.op = "write" /\ Running) =>
        LET size == Len(buf)
            n == Min(last'.count,
                     get_max_fill_count(buf) - StoredFill - drifter.startup_zeros)
            target == {Slot(write_ptr, k, size) : k \in 0..(n - 1)}
        IN  /\ n >= 0
            /\ StoredFill' = StoredFill + n
            /\ write_ptr' = Slot(write_ptr, n, size)
            /\ read_ptr' = read_ptr
            /\ drifter'.startup_zeros = drifter.startup_zeros
            /\ \A k \in 0..(n - 1) :
                  buf'[Slot(write_ptr, k, size)] = offered + k + 1
            /\ \A i \in (1..size) \ target : buf'[i] = buf[i]
            /\ \A i \in 1..size :
                  buf'[i] \notin (offered + n + 1)..(offered + last'.count)

\* C11: a write(data, count) made while Running stores exactly
\* min(count, get_available_space()) elements, the first ones of data in
\* order, behind the stored content, where get_available_space() is the
\* physical free space minus startup_zeros; the remaining elements of data
\* are stored nowhere in the object, so that no read can deliver them.
C11_RunningWrite == [][C11_WriteStep]_vars

\* A Running write was cut short by the startup zeros: it stored a part of
\* its data and dropped the rest while physical space was still free.
C11_Witness ==
    /\ last.op = "write" /\ ~mid.started /\ Running
    /\ drifter.writer_xruns_in_succession > 0
    /\ drifter.startup_zeros > 0
    /\ StoredFill > 0
    /\ buf[write_ptr] = null_data
    /\ \E i \in 1..Len(buf) : buf[i] > offered - last.count

\* The xrun counters of the writer and of the reader in the fields d: total,
\* since start, in succession.
WriterXruns(d) ==
    <<d.writer_xruns_total, d.writer_xruns_since_start, d.writer_xruns_in_succession>>
ReaderXruns(d) ==
    <<d.reader_xruns_total, d.reader_xruns_since_start, d.reader_xruns_in_succession>>

\* The elements a write made in this state can store and the elements a read
\* made in this state can take.
WriteRoom == get_max_fill_count(buf) - StoredFill - drifter.startup_zeros
ReadStock == StoredFill + drifter.startup_zeros - drifter.minimum_fill_count

\* What one write or read call made while Running does to the xrun counters.
C12_XrunStep ==
    /\ (last'.op = "write" /\ Running) =>
          /\ ReaderXruns(drifter') = ReaderXruns(drifter)
          /\ WriterXruns(drifter') =
                IF last'.count > WriteRoom
                THEN <<drifter.writer_xruns_total + 1,
                       drifter.writer_xruns_since_start + 1,
                       drifter.writer_xruns_in_succession + 1>>
                ELSE <<drifter.writer_xruns_total,
                       drifter.writer_xruns_since_start, 0>>
    /\ (last'.op = "read" /\ Running) =>
          /\ WriterXruns(drifter') = WriterXruns(drifter)
          /\ ReaderXruns(drifter') =
                IF last'.count > ReadStock
                THEN <<drifter.reader_xruns_total + 1,
                       drifter.reader_xruns_since_start + 1,
                       drifter.reader_xruns_in_succession + 1>>
                ELSE <<drifter.reader_xruns_total,
                       drifter.reader_xruns_since_start, 0>>

\* C12: while Running, a write or read that transfers fewer elements than
\* requested increases its side's total, since-start and in-succession xrun
\* counters by exactly one each and leaves the other side's counters
\* unchanged; a call that transfers all requested elements sets its side's
\* in-succession counter to 0 and changes no other counter.
C12_XrunAccounting == [][C12_XrunStep]_vars

\* A complete write has reset the writer's in-succession counter after a
\* short write of the same start, whose xrun the other counters still hold.
C12_Witness ==
    /\ last.op = "write" /\ last.count > 0 /\ Running /\ ~mid.started
    /\ drifter.writer_xruns_in_succession = 0
    /\ drifter.writer_xruns_since_start > 0

\* What one read call made while Running transfers.
C13_ReadStep ==
    (last'.op = "read" /\ Running) =>
        LET size == Len(buf)
            t == Min(last'.count, ReadStock)
            z == Min(drifter.startup_zeros, t)
            d == t - z
        IN  /\ t >= 0
            /\ drifter'.startup_zeros = drifter.startup_zeros - z
            /\ StoredFill' = StoredFill - d
            /\ read_ptr' = Slot(read_ptr, d, size)
            /\ write_ptr' = write_ptr /\ buf' = buf
            /\ Len(outbuf') = last'.count
            /\ \A i \in 1..z : outbuf'[i] = null_data
            /\ \A k \in 0..(d - 1) :
                  /\ outbuf'[z + k + 1] = buf[Slot(read_ptr, k, size)]
                  /\ outbuf'[z + k + 1] > null_data
                  /\ k > 0 => outbuf'[z + k + 1] > outbuf'[z + k]
                  /\ \A j \in 0..(StoredFill' - 1) :
                        buf[Slot(read_ptr', j, size)] > outbuf'[z + k + 1]
            /\ d > 0 => StoredFill' >= drifter.minimum_fill_count

\* C13: a read(buf, count) made while Running transfers
\* min(count, get_fill_count() - minimum_fill_count) elements: first the
\* startup zeros, each delivered as the null value and taken off
\* startup_zeros, and only then stored elements, oldest first; after a read
\* that removed stored elements the stored fill count is at least
\* minimum_fill_count.
C13_RunningRead == [][C13_ReadStep]_vars

\* One Running read delivered a startup zero followed by a stored element.
C13_Witness ==
    /\ last.op = "read" /\ ~mid.started /\ last.count >= 2
    /\ outbuf[1] = null_data /\ outbuf[2] > null_data
    /\ drifter.startup_zeros = 0

\* C14: after a read(buf, count) made while Running that transferred fewer
\* than count elements, every output position from the number of transferred
\* elements up to count - 1 holds the null value, so that all count positions
\* hold transferred data or silence.
C14_ShortfallPadded ==
    [][(last'.op = "read" /\ Running /\ last'.count > ReadStock) =>
          /\ \A i \in (ReadStock + 1)..last'.count : outbuf'[i] = null_data
          /\ \A i \in 1..last'.count : outbuf'[i] # Untouched]_vars

(***************************************************************************)
(* The stop policy of mha_drifter_fifo_t: runs of write and read calls     *)
(* long enough for the in-succession xrun counters to pass their limits.   *)
(* Every write passes the same block, so offered stays 0.                  *)
(***************************************************************************)

\* Construction of the FIFO of such a run.
StInit ==
    /\ \E max_fill_count \in 1..StopCap :
       \E des_fill_count \in 0..max_fill_count :
       \E min_fill_count \in 0..des_fill_count :
          LET o == DrifterNew(min_fill_count, des_fill_count, max_fill_count)
          IN  /\ drifter = [f \in DrFields |-> o[f]]
              /\ buf = o.buf /\ write_ptr = o.write_ptr /\ read_ptr = o.read_ptr
    /\ offered = 0
    /\ mid = NoStart
    /\ written = <<>>
    /\ readout = <<>>
    /\ last = NoCall
    /\ outbuf = <<>>
    /\ run = NoRun
    /\ LFIdle
    /\ RTIdle
    /\ DblIdle
    /\ LwIdle
    /\ SbIdle

\* The counts of the calls of such a run: one element, which the FIFO may
\* or may not be able to transfer, and more than the FIFO can ever transfer.
StopCounts == {1, get_max_fill_count(buf) + 1}

\* The xruns the run may count in all.
StopMaxXruns == drifter.maximum_writer_xruns_in_succession_before_stop + StopExtra

\* A call write(data, count) of a run that may pass the xrun limit.
StWrite ==
    \E count \in StopCounts :
       \E w \in {drifter_write(DrObj, Data(0, count))} :
           /\ w.obj.writer_xruns_total + w.obj.reader_xruns_total <= StopMaxXruns
           /\ DrSet(w.obj)
           /\ mid' = IF drifter.writer_started THEN NoStart ELSE StartRecord(w.mid)
           /\ last' = [op |-> "write", count |-> count, ok |-> ~w.threw]
           /\ outbuf' = <<>>
           /\ UNCHANGED <<offered, written, readout, lfVars, run, rtVars, dbVars, lwVars, sbVars>>

\* A call read(buf, count) of a run that may pass the xrun limit.
StRead ==
    \E count \in StopCounts :
       \E r \in {drifter_read(DrObj, count, FreshOut(count))} :
           /\ r.obj.writer_xruns_total + r.obj.reader_xruns_total <= StopMaxXruns
           /\ DrSet(r.obj)
           /\ outbuf' = r.out
           /\ mid' = IF drifter.reader_started THEN NoStart ELSE StartRecord(r.mid)
           /\ last' = [op |-> "read", count |-> count, ok |-> ~r.threw]
           /\ UNCHANGED <<offered, written, readout, lfVars, run, rtVars, dbVars, lwVars, sbVars>>

StNext == StWrite \/ StRead

SpecStop == StInit /\ [][StNext]_vars

\* Both started flags are false.
Stopped == ~drifter.writer_started /\ ~drifter.reader_started

\* What one call does to the in-succession counters and the started flags,
\* and what a read delivers while the writer has not written since the stop.
C15_StopStep ==
    /\ drifter.maximum_writer_xruns_in_succession_before_stop = 10
    /\ drifter.maximum_reader_xruns_in_succession_before_stop = 10
    /\ (last'.op = "write" /\ Running) =>
          /\ drifter'.reader_xruns_in_succession = drifter.reader_xruns_in_succession
          /\ IF last'.count > WriteRoom
             THEN /\ drifter'.writer_xruns_in_succession =
                        drifter.writer_xruns_in_succession + 1
                  /\ IF drifter.writer_xruns_in_succession + 1 <= 10
                     THEN Running' ELSE Stopped'
             ELSE /\ drifter'.writer_xruns_in_succession = 0
                  /\ Running'
    /\ (last'.op = "read" /\ Running) =>
          /\ drifter'.writer_xruns_in_succession = drifter.writer_xruns_in_succession
          /\ IF last'.count > ReadStock
             THEN /\ drifter'.reader_xruns_in_succession =
                        drifter.reader_xruns_in_succession + 1
                  /\ IF drifter.reader_xruns_in_succession + 1 <= 10
                     THEN Running' ELSE Stopped'
             ELSE /\ drifter'.reader_xruns_in_succession = 0
                  /\ Running'
    /\ Running' =>
          /\ drifter'.writer_xruns_in_succession <= 10
          /\ drifter'.reader_xruns_in_succession <= 10
    /\ (Stopped /\ last'.op = "write") =>
          drifter'.writer_started /\ ~drifter'.reader_started
    /\ (Stopped /\ last'.op = "read") =>
          drifter'.reader_started /\ ~drifter'.writer_started
    /\ (last'.op = "read" /\ ~drifter.writer_started) =>
          /\ ~Running'
          /\ Len(outbuf') = last'.count
          /\ \A i \in 1..last'.count : outbuf'[i] = null_data

\* C15: the in-succession limits are 10.  A Running FIFO stays Running
\* through a short write that is at most the 10th in succession and becomes
\* Stopped (both started flags false) at the short write that is the 11th in
\* succession, a complete write starting the succession anew; the same holds
\* for short reads and the reader's limit.  After the stop the FIFO is
\* Running again only when both write and read have been called: one call
\* sets only its own flag, and every read called while write has not been
\* called since the stop sets all count output elements to the null value.
C15_StopPolicy == [][C15_StopStep]_vars

\* The 11th short write in succession has stopped the FIFO, and a read after
\* it has returned silence.
C15_Witness ==
    /\ last.op = "read" /\ last.count > 0
    /\ \A i \in 1..last.count : outbuf[i] = null_data
    /\ drifter.reader_started /\ ~drifter.writer_started
    /\ drifter.writer_xruns_total = 11
    /\ drifter.reader_xruns_total = 0

(***************************************************************************)
(* A faster writer: on a FIFO that both sides have just started, with      *)
(* write(data, 0) and read(buf, 0), the run alternates write(data, w) and  *)
(* read(buf, r) with w > r.                                                *)
(***************************************************************************)

\* Construction, the two calls that start the sides, and the counts.
RunInit ==
    /\ \E max_fill_count \in 1..RunCap :
       \E des_fill_count \in 0..max_fill_count :
       \E min_fill_count \in 0..des_fill_count :
          LET o == DrifterNew(min_fill_count, des_fill_count, max_fill_count)
              w == drifter_write(o, <<>>)
              r == drifter_read(w.obj, 0, <<>>)
          IN  /\ drifter = [f \in DrFields |-> r.obj[f]]
              /\ buf = r.obj.buf
              /\ write_ptr = r.obj.write_ptr
              /\ read_ptr = r.obj.read_ptr
    /\ \E w \in 1..RunCount : \E r \in 0..(w - 1) : run = [w |-> w, r |-> r]
    /\ offered = 0
    /\ mid = NoStart
    /\ written = <<>>
    /\ readout = <<>>
    /\ last = [op |-> "read", count |-> 0, ok |-> TRUE]
    /\ outbuf = <<>>
    /\ LFIdle
    /\ RTIdle
    /\ DblIdle
    /\ LwIdle
    /\ SbIdle

\* The call write(data, w) of the run, after a read.
RunWrite ==
    /\ last.op = "read"
    /\ offered < RunWrites * run.w
    /\ \E w \in {drifter_write(DrObj, Data(offered, run.w))} :
           /\ DrSet(w.obj)
           /\ offered' = offered + run.w
           /\ mid' = IF drifter.writer_started THEN NoStart ELSE StartRecord(w.mid)
           /\ last' = [op |-> "write", count |-> run.w, ok |-> ~w.threw]
           /\ outbuf' = <<>>
           /\ UNCHANGED <<written, readout, lfVars, run, rtVars, dbVars, lwVars, sbVars>>

\* The call read(buf, r) of the run, after a write.
RunRead ==
    /\ last.op = "write"
    /\ \E r \in {drifter_read(DrObj, run.r, FreshOut(run.r))} :
           /\ DrSet(r.obj)
           /\ outbuf' = r.out
           /\ mid' = IF drifter.reader_started THEN NoStart ELSE StartRecord(r.mid)
           /\ last' = [op |-> "read", count |-> run.r, ok |-> ~r.threw]
           /\ UNCHANGED <<offered, written, readout, lfVars, run, rtVars, dbVars, lwVars, sbVars>>

RunNext == RunWrite \/ RunRead

SpecRun == RunInit /\ [][RunNext]_vars

\* What a step of the run does: the reader has counted no xrun since the
\* start, and a write that counts an xrun found more than desired_fill_count
\* elements, startup zeros included.
RunStep ==
    /\ drifter'.reader_xruns_since_start = 0
    /\ (last'.op = "write" /\ Running
          /\ drifter'.writer_xruns_total > drifter.writer_xruns_total) =>
          StoredFill + drifter.startup_zeros > drifter.desired_fill_count

\* C16 as stated: in every run that alternates write(w) and read(r) with
\* w > r on a started FIFO the reader xrun-since-start counter stays at zero
\* and writer xruns happen only once the fill count has exceeded
\* desired_fill_count.
C16_Original == [][RunStep]_vars

\* C16, amended: in every run that alternates write(w) and read(r) with
\* w > r and w <= capacity - desired_fill_count on a FIFO that both sides have
\* just started, the reader xrun-since-start counter stays at zero for the
\* whole run, and every write that counts a writer xrun found the fill count
\* above desired_fill_count.
C16_FasterWriter ==
    [][(run.w <= get_max_fill_count(buf) - drifter.desired_fill_count) => RunStep]_vars

\* The faster writer has run into writer xruns, after the startup zeros
\* and stored data was read, and the reader has counted none.
C16_Witness ==
    /\ run.w <= get_max_fill_count(buf) - drifter.desired_fill_count
    /\ run.r > 0
    /\ drifter.desired_fill_count > 0
    /\ last.op = "read" /\ Running
    /\ drifter.writer_xruns_since_start > 1
    /\ drifter.reader_xruns_since_start = 0
    /\ drifter.startup_zeros = 0

\* C17: on a FIFO constructed with minimum_fill_count <= desired_fill_count
\* <= capacity, no write or read call of any sequence of write, read, stop and
\* starting calls, whatever the counts, ends with the capacity error of
\* mha_fifo_t::write or mha_fifo_t::read; a shortfall shows only in the xrun
\* counters and the started flags.
C17_NeverRaises == last.ok

\* A Running write of more elements than the capacity, after a stop and a
\* restart, returned without an error and counted its shortfall as an xrun.
C17_Witness ==
    /\ last.op = "write" /\ last.ok
    /\ last.count > get_max_fill_count(buf)
    /\ Running
    /\ drifter.writer_xruns_in_succession > 0
    /\ drifter.reader_xruns_total > drifter.reader_xruns_since_start

(***************************************************************************)
(* mha_rt_fifo_t: the queue that hands objects from the thread that calls  *)
(* push to the thread that calls poll and poll_1.  An element is named by  *)
(* its index in nodes, in the order of allocation; 0 is the null pointer.  *)
(* The payload of the k-th push is the number k.  A queue q is the record  *)
(* of nodes, root, current and uaf, which tells that a deleted element has *)
(* been accessed.                                                          *)
(***************************************************************************)

NewElement_Abandonned(data) ==
    [next |-> 0, abandonned |-> TRUE, data |-> data, freed |-> FALSE]

\* mha_rt_fifo_element_t<T>::mha_rt_fifo_element_t(data)
NewElement(data) ==
    [next |-> 0, abandonned |-> FALSE, data |-> data, freed |-> FALSE]

\* mha_rt_fifo_element_t<T>::~mha_rt_fifo_element_t, in delete
DeleteElement(e) == [e EXCEPT !.data = 0, !.next = 0, !.freed = TRUE]

\* The queue after an access to its element n.
Deref(q, n) == [q EXCEPT !.uaf = @ \/ q.nodes[n].freed]

\* The locals of a thread that is in no call.
ProducerIdle == [pc |-> "idle", data |-> 0, element |-> 0, previous |-> 0]
ConsumerIdle(op, result) ==
    [pc |-> "idle", op |-> op, oldcurrent |-> 0, result |-> result]

RemovableRoot_HasNext(q) == q.root # 0 /\ q.nodes[q.root].next # 0

\* The condition root && root->abandonned of remove_abandonned.
RemovableRoot(q) == q.root # 0 /\ q.nodes[q.root].abandonned

IsEmpty_NothingAllocated(q) == Len(q.nodes) = 0

\* The test root == 0 at the head of poll and poll_1.
IsEmpty(q) == q.root = 0

\* One step of push(data), the loop of remove_abandonned included; p holds
\* the position and the locals of the thread.
PushStep(q, p) ==
    CASE p.pc = "alloc" ->
           [q |-> [q EXCEPT !.nodes = Append(@, NewElement(p.data))],
            p |-> [p EXCEPT !.pc = "link", !.element = Len(q.nodes) + 1]]
      [] p.pc = "link" ->
           IF q.root = 0
           THEN [q |-> [q EXCEPT !.root = p.element],
                 p |-> [p EXCEPT !.pc = "remove"]]
           ELSE [q |-> q,
                 p |-> [p EXCEPT !.pc = "walk",
                                 !.previous = IF q.current = 0 THEN q.root
                                              ELSE q.current]]
      [] p.pc = "walk" ->
           IF q.nodes[p.previous].next # 0
           THEN [q |-> Deref(q, p.previous),
                 p |-> [p EXCEPT !.previous = q.nodes[p.previous].next]]
           ELSE [q |-> [Deref(q, p.previous) EXCEPT
                          !.nodes[p.previous].next = p.element],
                 p |-> [p EXCEPT !.pc = "remove"]]
      [] p.pc = "remove" ->
           IF RemovableRoot(q)
           THEN [q |-> [Deref(q, q.root) EXCEPT
                          !.root = q.nodes[q.root].next,
                          !.nodes[q.root] = DeleteElement(@)],
                 p |-> p]
           ELSE [q |-> IF q.root # 0 THEN Deref(q, q.root) ELSE q,
                 p |-> ProducerIdle]

AfterAbandon_Once(op) == "return"

AfterAbandon_Loop(op) == "loop"

AfterAbandon_First(op) == "first"

\* Where poll and poll_1 go on after oldcurrent->abandonned = true: the while
\* loop of poll tests current->next again, poll_1 returns.
AfterAbandon(op) == IF op = "poll" THEN "loop" ELSE "return"

\* One step of poll() or poll_1(); c holds the position and the locals of
\* the thread, and the pointer its latest call returned.
PollStep(q, c) ==
    CASE c.pc = "begin" ->
           IF IsEmpty(q)
           THEN [q |-> q, c |-> ConsumerIdle(c.op, 0)]
           ELSE [q |-> q, c |-> [c EXCEPT !.pc = "first"]]
      [] c.pc = "first" ->
           IF q.current = 0
           THEN [q |-> [q EXCEPT !.current = q.root],
                 c |-> [c EXCEPT !.pc = IF c.op = "poll" THEN "loop" ELSE "return"]]
           ELSE [q |-> q, c |-> [c EXCEPT !.pc = "loop"]]
      [] c.pc = "loop" ->
           IF q.nodes[q.current].next # 0
           THEN [q |-> [Deref(q, q.current) EXCEPT
                          !.current = q.nodes[q.current].next],
                 c |-> [c EXCEPT !.pc = "abandon", !.oldcurrent = q.current]]
           ELSE [q |-> Deref(q, q.current), c |-> [c EXCEPT !.pc = "return"]]
      [] c.pc = "abandon" ->
           [q |-> [Deref(q, c.oldcurrent) EXCEPT
                     !.nodes[c.oldcurrent].abandonned = TRUE],
            c |-> [c EXCEPT !.pc = AfterAbandon(c.op), !.oldcurrent = 0]]
      [] c.pc = "return" ->
           [q |-> Deref(q, q.current),
            c |-> ConsumerIdle(c.op, q.nodes[q.current].data)]

\* The queue in the current state, and the next state holding the queue q.
RTObj == [nodes |-> nodes, root |-> root, current |-> current, uaf |-> rtlog.uaf]
RTSet(q) == nodes' = q.nodes /\ root' = q.root /\ current' = q.current

\* The specifications of the queue do not use the ring buffers.
FifoIdle ==
    /\ buf = <<>> /\ write_ptr = 1 /\ read_ptr = 1
    /\ written = <<>> /\ readout = <<>> /\ last = NoCall /\ outbuf = <<>>

(***************************************************************************)
(* mha_rt_fifo_t with its two threads: every step of push and every step   *)
(* of poll and poll_1 that reads or writes root, current or an element is  *)
(* one action, and the steps of the two threads interleave freely.         *)
(* rtlog holds: pushed, the number of push calls that have returned;       *)
(* floor, the value of pushed when the consumer's latest call began;       *)
(* from, the value of current when that call began;                        *)
(* clean, no step of push has been taken since that call began, and none   *)
(* was in progress then; quiet, the consumer's latest call was a poll that *)
(* has returned, and no step of push has been taken since that poll began, *)
(* and none was in progress then; uaf, a deleted element has been accessed.*)
(***************************************************************************)

\* mha_rt_fifo_t<T>::mha_rt_fifo_t
RTInit ==
    /\ nodes = <<>>
    /\ root = 0
    /\ current = 0
    /\ producer = ProducerIdle
    /\ consumer = ConsumerIdle("none", 0)
    /\ rtlog = [pushed |-> 0, floor |-> 0, from |-> 0, clean |-> TRUE,
                quiet |-> FALSE, uaf |-> FALSE]
    /\ FifoIdle
    /\ LFIdle
    /\ DrIdle
    /\ DblIdle
    /\ LwIdle
    /\ SbIdle

\* The producer thread takes the step of push that follows the locals p.
ProducerStep(p) ==
    \E s \in {PushStep(RTObj, p)} :
       /\ RTSet(s.q)
       /\ producer' = s.p
       /\ rtlog' = [rtlog EXCEPT !.uaf = s.q.uaf,
                                 !.clean = FALSE,
                                 !.quiet = FALSE,
                                 !.pushed = IF s.p.pc = "idle" THEN @ + 1 ELSE @]
       /\ UNCHANGED <<consumer, fifoVars, lfVars, drVars, histVars, dbVars, lwVars, sbVars>>

\* The consumer thread takes the step of poll or poll_1 that follows the
\* locals c; begins tells that the step is the first one of a call.
ConsumerStep(c, begins) ==
    \E s \in {PollStep(RTObj, c)} :
       /\ RTSet(s.q)
       /\ consumer' = s.c
       /\ rtlog' = [rtlog EXCEPT
                      !.uaf = s.q.uaf,
                      !.floor = IF begins THEN rtlog.pushed ELSE @,
                      !.from = IF begins THEN current ELSE @,
                      !.clean = IF begins THEN producer.pc = "idle" ELSE @,
                      !.quiet = IF s.c.pc = "idle"
                                THEN /\ c.op = "poll"
                                     /\ IF begins THEN producer.pc = "idle"
                                        ELSE rtlog.clean
                                ELSE @]
       /\ UNCHANGED <<producer, fifoVars, lfVars, drVars, histVars, dbVars, lwVars, sbVars>>

\* push(data) is called: new mha_rt_fifo_element_t<T>(data).
Push ==
    /\ producer.pc = "idle"
    /\ Len(nodes) < MaxPush
    /\ ProducerStep([ProducerIdle EXCEPT !.pc = "alloc", !.data = Len(nodes) + 1])

\* push: if (root == 0) root = element; else previous = current or root.
PushLink == producer.pc = "link" /\ ProducerStep(producer)

\* push: one test of previous->next, then previous = previous->next or
\* previous->next = element.
PushWalk == producer.pc = "walk" /\ ProducerStep(producer)

\* remove_abandonned: one test of root && root->abandonned, then the deletion
\* of root or the return of push.
PushRemove == producer.pc = "remove" /\ ProducerStep(producer)

\* poll() is called: if (root == 0) return 0.
PollCall ==
    /\ consumer.pc = "idle"
    /\ ConsumerStep([consumer EXCEPT !.pc = "begin", !.op = "poll"], TRUE)

\* poll_1() is called: if (root == 0) return 0.
Poll1Call ==
    /\ consumer.pc = "idle"
    /\ ConsumerStep([consumer EXCEPT !.pc = "begin", !.op = "poll_1"], TRUE)

\* poll, poll_1: if (current == 0) current = root.
PollFirst == consumer.pc = "first" /\ ConsumerStep(consumer, FALSE)

\* poll, poll_1: one test of current->next, then oldcurrent = current and
\* current = current->next.
PollLoop == consumer.pc = "loop" /\ ConsumerStep(consumer, FALSE)

\* poll, poll_1: oldcurrent->abandonned = true.
PollAbandon == consumer.pc = "abandon" /\ ConsumerStep(consumer, FALSE)

\* poll, poll_1: return current->data.
PollReturn == consumer.pc = "return" /\ ConsumerStep(consumer, FALSE)

RTNext ==
    \/ Push \/ PushLink \/ PushWalk \/ PushRemove
    \/ PollCall \/ Poll1Call \/ PollFirst \/ PollLoop \/ PollAbandon \/ PollReturn

SpecRT == RTInit /\ [][RTNext]_vars

(***************************************************************************)
(* Properties of mha_rt_fifo_t with its two threads, checked under SpecRT. *)
(***************************************************************************)

\* The consumer's latest call was a poll and it has returned.
PollReturned == consumer.pc = "idle" /\ consumer.op = "poll"

\* What poll has returned: the payload of the latest push that had returned
\* when the poll began, or of a later push; the former when no push was in
\* progress during the poll.  The element of that payload is current, and
\* every element before it is marked abandonned.
C18_Returned ==
    PollReturned =>
        /\ consumer.result >= rtlog.floor
        /\ consumer.result <= Len(nodes)
        /\ rtlog.clean => consumer.result = rtlog.floor
        /\ consumer.result > 0 =>
              /\ current = consumer.result
              /\ \A n \in 1..(current - 1) : nodes[n].abandonned
              /\ ~nodes[current].abandonned

\* A step of a poll that follows a poll, with no step of push since the
\* earlier poll began and no push in progress then, changes nothing in the
\* queue, and the poll returns what the earlier poll returned.
C18_FurtherStep ==
    (rtlog.quiet /\ producer' = producer /\ consumer'.op = "poll") =>
        /\ UNCHANGED <<nodes, root, current>>
        /\ consumer'.pc = "idle" => consumer'.result = consumer.result

\* C18: for any sequence of pushes, poll returns the payload of the most
\* recently pushed element among the pushes that had returned when the poll
\* began, or a newer one if a push is in progress; every element it advanced
\* past is marked abandonned; and a further poll with no push in between
\* returns the same payload and changes nothing.
C18_Poll == []C18_Returned /\ [][C18_FurtherStep]_vars

\* A poll has skipped two elements and returned the payload of a push that
\* was in progress when the poll began.
C18_Witness ==
    /\ PollReturned
    /\ consumer.result >= 3
    /\ rtlog.floor < consumer.result
    /\ rtlog.floor >= 1

\* C19: in every interleaving of the steps of push with the steps of poll
\* and poll_1, no thread accesses a deleted element; a deleted element is one
\* the consumer has advanced past and has marked abandonned, so that push
\* never deletes the current element or an element after it; and the element
\* whose payload the consumer's latest call returned is not deleted as long
\* as the consumer has not advanced past it.
C19_Borrowed ==
    /\ ~rtlog.uaf
    /\ \A n \in 1..Len(nodes) :
          nodes[n].freed =>
              /\ current # 0 /\ n < current
              /\ n # consumer.oldcurrent
              /\ producer.pc = "walk" => n # producer.previous
              /\ n # root
    /\ (consumer.result # 0 /\ current <= consumer.result) =>
          /\ ~nodes[consumer.result].freed
          /\ nodes[consumer.result].data = consumer.result

\* push is deleting abandonned elements, and has deleted one, while the
\* consumer has advanced from the root element, whose payload it held, and
\* has not yet marked it abandonned.
C19_Witness ==
    /\ producer.pc = "remove"
    /\ consumer.pc = "abandon"
    /\ consumer.oldcurrent = root
    /\ consumer.result = root
    /\ \E n \in 1..Len(nodes) : nodes[n].freed

(***************************************************************************)
(* mha_rt_fifo_t used by one thread at a time: every action is a whole     *)
(* call of push, poll or poll_1, made of the steps above.  Here rtlog      *)
(* holds: uaf as before; calls, the number of calls of poll and poll_1 so  *)
(* far, counted up to 2; lastop, the method called last.                   *)
(***************************************************************************)

\* The queue after the steps of a push whose thread is at p.
RECURSIVE RunPush(_, _)
RunPush(q, p) ==
    IF p.pc = "idle" THEN q
    ELSE LET s == PushStep(q, p) IN RunPush(s.q, s.p)

\* The queue and the consumer after the steps of a poll or poll_1 whose
\* thread is at c.
RECURSIVE RunPoll(_, _)
RunPoll(q, c) ==
    IF c.pc = "idle" THEN [q |-> q, c |-> c]
    ELSE LET s == PollStep(q, c) IN RunPoll(s.q, s.c)

\* mha_rt_fifo_t<T>::mha_rt_fifo_t
SeqInit ==
    /\ nodes = <<>>
    /\ root = 0
    /\ current = 0
    /\ producer = ProducerIdle
    /\ consumer = ConsumerIdle("none", 0)
    /\ rtlog = [uaf |-> FALSE, calls |-> 0, lastop |-> "none"]
    /\ FifoIdle
    /\ LFIdle
    /\ DrIdle
    /\ DblIdle
    /\ LwIdle
    /\ SbIdle

\* A call push(data).
SeqPush ==
    /\ Len(nodes) < MaxPush
    /\ \E q \in {RunPush(RTObj, [ProducerIdle EXCEPT !.pc = "alloc",
                                                     !.data = Len(nodes) + 1])} :
          /\ RTSet(q)
          /\ rtlog' = [rtlog EXCEPT !.uaf = q.uaf, !.lastop = "push"]
    /\ UNCHANGED <<producer, consumer, fifoVars, lfVars, drVars, histVars, dbVars, lwVars, sbVars>>

\* A call of the consumer's method op.
SeqConsumer(op) ==
    /\ \E s \in {RunPoll(RTObj, [consumer EXCEPT !.pc = "begin", !.op = op])} :
          /\ RTSet(s.q)
          /\ consumer' = s.c
          /\ rtlog' = [rtlog EXCEPT !.uaf = s.q.uaf,
                                    !.calls = Min(@ + 1, 2),
                                    !.lastop = op]
    /\ UNCHANGED <<producer, fifoVars, lfVars, drVars, histVars, dbVars, lwVars, sbVars>>

\* A call poll().
SeqPoll == SeqConsumer("poll")

\* A call poll_1().
SeqPoll1 == SeqConsumer("poll_1")

SeqNext == SeqPush \/ SeqPoll \/ SeqPoll1

SpecRTSeq == SeqInit /\ [][SeqNext]_vars

\* The calls so far are N >= 1 pushes followed by one poll.
AfterSinglePoll ==
    rtlog.calls = 1 /\ rtlog.lastop = "poll" /\ Len(nodes) >= 1

\* After N >= 1 pushes and one poll: the poll has returned the N-th payload,
\* and all N elements are allocated.
C20_AfterPoll ==
    AfterSinglePoll =>
        /\ consumer.result = Len(nodes)
        /\ current = Len(nodes)
        /\ \A n \in 1..Len(nodes) : ~nodes[n].freed /\ nodes[n].data = n

\* The push that follows N >= 1 pushes and one poll deletes the first N - 1
\* elements and no other.
C20_PushStep ==
    (AfterSinglePoll /\ rtlog'.lastop = "push") =>
        /\ Len(nodes') = Len(nodes) + 1
        /\ \A n \in 1..Len(nodes') : nodes'[n].freed <=> n < Len(nodes)
        /\ root' = Len(nodes)
        /\ current' = current

\* C20: after N >= 1 pushes followed by a single poll(), the poll has
\* returned the N-th pushed payload and the N - 1 earlier elements are still
\* allocated; the next push deletes exactly those N - 1 elements, and not
\* the N-th.
C20_PushFrees == []C20_AfterPoll /\ [][C20_PushStep]_vars

\* Three pushes, one poll, and a fourth push that has deleted the first two
\* elements and kept the third, whose payload the poll returned.
C20_Witness ==
    /\ rtlog.calls = 1 /\ rtlog.lastop = "push"
    /\ Len(nodes) = 4
    /\ consumer.result = 3
    /\ nodes[1].freed /\ nodes[2].freed
    /\ ~nodes[3].freed /\ ~nodes[4].freed

\* The consumer's latest call was a poll_1 and it has returned.
Poll1Returned == consumer.pc = "idle" /\ consumer.op = "poll_1"

\* While the consumer is in no call, the elements marked abandonned are
\* the ones before current.
MarkedBeforeCurrent ==
    consumer.pc = "idle" =>
        \A n \in 1..Len(nodes) : nodes[n].abandonned <=> (n < current)

\* C21: a call of poll_1 advances the consumer by at most one element: it
\* returns the first payload when the consumer held none, else the payload
\* after the one the consumer held, or the same again when no newer one had
\* been pushed; so a consumer that only calls poll_1 gets the payloads in
\* push order and skips none.  The elements marked abandonned are exactly
\* the ones the consumer has advanced past.
C21_Poll1 ==
    /\ MarkedBeforeCurrent
    /\ Poll1Returned =>
          /\ consumer.result <= Len(nodes)
          /\ consumer.result = 0 => (rtlog.from = 0 /\ rtlog.floor = 0)
          /\ consumer.result > 0 =>
                /\ current = consumer.result
                /\ nodes[current].data = consumer.result
                /\ rtlog.from = 0 => consumer.result = 1
                /\ rtlog.from > 0 =>
                      /\ consumer.result \in {rtlog.from, rtlog.from + 1}
                      /\ rtlog.floor > rtlog.from =>
                            consumer.result = rtlog.from + 1
                      /\ (rtlog.clean /\ rtlog.floor = rtlog.from) =>
                            consumer.result = rtlog.from

\* A poll_1 has advanced by one element although two newer payloads had
\* been pushed when it began.
C21_Witness ==
    /\ Poll1Returned
    /\ rtlog.from >= 1
    /\ consumer.result = rtlog.from + 1
    /\ rtlog.floor >= rtlog.from + 2
    /\ nodes[rtlog.from].abandonned /\ ~nodes[consumer.result].abandonned

\* What a step deletes and what it does to root: root changes only in a
\* step of push; an element is deleted only in the remove_abandonned of
\* push, when it is root and marked abandonned; a step of poll or poll_1
\* changes neither root nor any element's payload, and deletes nothing.
C22_Step ==
    /\ root' # root =>
          /\ producer.pc \in {"link", "remove"}
          /\ consumer' = consumer /\ current' = current
    /\ \A n \in 1..Len(nodes) :
          (nodes'[n].freed /\ ~nodes[n].freed) =>
              /\ producer.pc = "remove"
              /\ n = root
              /\ nodes[n].abandonned
              /\ consumer' = consumer /\ current' = current
    /\ (consumer' # consumer \/ current' # current) =>
          /\ root' = root
          /\ Len(nodes') = Len(nodes)
          /\ \A n \in 1..Len(nodes) :
                /\ nodes'[n].freed = nodes[n].freed
                /\ nodes'[n].data = nodes[n].data
                /\ nodes'[n].next = nodes[n].next

\* C22: poll and poll_1 never delete an element or a payload and never
\* change root; every element is deleted inside a push call, and only if
\* the consumer had marked it abandonned before.
C22_ProducerOnly == [][C22_Step]_vars

\* push has deleted every element before current and has returned, while
\* the consumer is about to return the payload of the root element.
C22_Witness ==
    /\ producer.pc = "idle"
    /\ consumer.pc = "return"
    /\ root = current /\ root >= 3
    /\ \A n \in 1..(root - 1) : nodes[n].freed

\* A call of poll or poll_1 made while root is null returns null at once
\* and leaves the queue as it is; and while root is null the consumer
\* holds no element and no payload.
C23_Step ==
    /\ root = 0 =>
          /\ current = 0
          /\ consumer.pc = "idle" /\ consumer.result = 0
          /\ \A n \in 1..Len(nodes) : ~nodes[n].abandonned /\ ~nodes[n].freed
    /\ (root = 0 /\ producer' = producer) =>
          /\ consumer'.pc = "idle" /\ consumer'.result = 0
          /\ UNCHANGED <<nodes, root, current>>

\* C23: poll() and poll_1() called before any push return null and leave
\* the queue unchanged, on every call until the first push has linked its
\* element, i.e. has set root.
C23_EmptyPoll == [][C23_Step]_vars

\* poll_1 has returned null while the first push has allocated its element
\* and has not linked it yet.
C23_Witness ==
    /\ root = 0 /\ Len(nodes) = 1
    /\ producer.pc = "link"
    /\ Poll1Returned /\ consumer.result = 0
    /\ ~rtlog.clean

\* The last element of the chain that starts at element n.
RECURSIVE LastLinked(_)
LastLinked(n) == IF nodes[n].next = 0 THEN n ELSE LastLinked(nodes[n].next)

\* The number of elements linked after element n.
LinkedAfter(n) == LastLinked(n) - n

\* A bound on the steps the push in progress has yet to take: Len(nodes),
\* previous and root only move forward, and no step of the consumer changes
\* any of them.
PushRank ==
    CASE producer.pc = "idle" -> 0
      [] producer.pc = "remove" -> Len(nodes) - root + 2
      [] producer.pc = "walk" -> 2 * Len(nodes) - producer.previous + 3
      [] producer.pc = "link" -> 3 * Len(nodes) + 4

\* A bound on the steps the poll or poll_1 in progress has yet to take: two
\* for every element linked after current, and at most three more.
PollRank ==
    CASE consumer.pc = "idle" -> 0
      [] consumer.pc = "return" -> 1
      [] consumer.pc = "loop" -> 2 * LinkedAfter(current) + 2
      [] consumer.pc = "abandon" -> 2 * LinkedAfter(current) + 3
      [] consumer.pc = "first" ->
           2 * LinkedAfter(IF current = 0 THEN root ELSE current) + 3

\* The step is one of the producer thread within a call of push, and one of
\* the consumer thread within a call of poll or poll_1.
ProducerMoves == producer.pc # "idle" /\ (producer' # producer \/ root' # root)
ConsumerMoves == consumer.pc # "idle" /\ consumer' # consumer

\* A thread that is in a call can take its next step whatever the other
\* thread does or has done.
NeverWaits ==
    /\ producer.pc = "link" => ENABLED PushLink
    /\ producer.pc = "walk" => ENABLED PushWalk
    /\ producer.pc = "remove" => ENABLED PushRemove
    /\ consumer.pc = "first" => ENABLED PollFirst
    /\ consumer.pc = "loop" => ENABLED PollLoop
    /\ consumer.pc = "abandon" => ENABLED PollAbandon
    /\ consumer.pc = "return" => ENABLED PollReturn
    /\ consumer.pc = "idle" => ENABLED PollCall /\ ENABLED Poll1Call
    /\ (producer.pc = "idle" /\ Len(nodes) < MaxPush) => ENABLED Push

\* Every step of push lowers PushRank and no step of the consumer raises
\* it; every step of poll and poll_1 lowers PollRank, and a step of push
\* raises it by two when it links an element and not otherwise; poll_1
\* returns after the one advance it may take.
C24_Step ==
    /\ ProducerMoves =>
          /\ PushRank' < PushRank
          /\ PollRank' <= PollRank +
                (IF producer.pc = "walk" /\ producer'.pc = "remove" THEN 2 ELSE 0)
    /\ ConsumerMoves =>
          /\ PollRank' < PollRank
          /\ PushRank' = PushRank
    /\ (ConsumerMoves /\ consumer.op = "poll_1" /\ consumer.pc = "abandon") =>
          consumer'.pc = "return"

\* C24: push, poll and poll_1 never wait for the other thread: a thread in
\* a call can always take its next step; poll_1 takes at most one advance;
\* poll returns after at most as many advances as elements are linked after
\* current; and push returns after a bounded number of its own steps
\* whatever the consumer does.
C24_NeverBlocks == []NeverWaits /\ [][C24_Step]_vars

\* poll is advancing for the third time in one call while push is walking
\* to the end of the chain.
C24_Witness ==
    /\ consumer.op = "poll" /\ consumer.pc = "abandon"
    /\ current >= rtlog.from + 3 /\ rtlog.from >= 1
    /\ producer.pc = "walk"

(***************************************************************************)
(* mha_dblbuf_t                                                            *)
(*                                                                         *)
(* The class is declared in mha_fifo.h and its member functions are        *)
(* defined elsewhere; they are modelled after the declarations' comments   *)
(* and the description of the double buffer.  Of a pre-fill "of both ring  *)
(* buffers" the model keeps the pre-fill of the output FIFO: delay is "the *)
(* total delay" and "consists of copies of" delay_data, and the latency is *)
(* "exactly delay elements end-to-end", which a second pre-fill of the     *)
(* input FIFO would double.                                                *)
(***************************************************************************)

Max(a, b) == IF a >= b THEN a ELSE b

RECURSIVE GCD(_, _)
GCD(a, b) == IF b = 0 THEN a ELSE GCD(b, a % b)

\* get_fill_count(), get_available_space(), write and read of a FIFO object
\* f that is a member of another object.
FifoFill(f) == fifo_fill_count(f.buf, f.write_ptr, f.read_ptr)
FifoSpace(f) == fifo_available_space(f.buf, f.write_ptr, f.read_ptr)
FifoWrite(f, data) ==
    LET w == fifo_write(f.buf, f.write_ptr, data, FifoSpace(f))
    IN  [threw |-> w.threw,
         fifo |-> [f EXCEPT !.buf = w.buf, !.write_ptr = w.write_ptr]]
FifoRead(f, count) ==
    LET r == fifo_read(f.buf, f.read_ptr, count, FreshOut(count), 1, FifoFill(f))
    IN  [threw |-> r.threw, out |-> r.out,
         fifo |-> [f EXCEPT !.read_ptr = r.read_ptr]]

DblFifoSize_NoDelay(outer_size, inner_size, delay) == Max(inner_size, outer_size)

\* mha_dblbuf_t::fifo_size, "the size of each of the FIFOs": the delay and
\* the larger of the two block sizes.
DblFifoSize(outer_size, inner_size, delay) == delay + Max(inner_size, outer_size)

DblPrefill_Nothing(delay, output_channels, delay_data) == <<>>

\* The elements the constructor writes to the output FIFO: delay copies of
\* delay_data for every output channel.
DblPrefill(delay, output_channels, delay_data) ==
    [i \in 1..(delay * output_channels) |-> delay_data]

\* mha_dblbuf_t::mha_dblbuf_t(outer_size, inner_size, delay, input_channels,
\* output_channels, delay_data)
DblNew(outer_size, inner_size, delay, input_channels, output_channels, delay_data) ==
    LET fifo_size == DblFifoSize(outer_size, inner_size, delay)
    IN  [outer_size |-> outer_size,
         inner_size |-> inner_size,
         delay |-> delay,
         fifo_size |-> fifo_size,
         input_channels |-> input_channels,
         output_channels |-> output_channels,
         input_fifo |-> FifoNew(fifo_size * input_channels, null_data),
         output_fifo |->
            FifoWrite(FifoNew(fifo_size * output_channels, null_data),
                      DblPrefill(delay, output_channels, delay_data)).fifo]

ProcessThrows_InnerSize(d, count) == count > d.inner_size

\* mha_dblbuf_t::process throws "when count is > outer_size as given to
\* constructor".
ProcessThrows(d, count) == count > d.outer_size

\* The first half of process(input_signal, output_signal, count): the test
\* of count, then count elements per input channel go to the input FIFO.
dbl_process_write(d, input_signal, count) ==
    IF ProcessThrows(d, count)
    THEN [threw |-> TRUE, error |-> "count", d |-> d]
    ELSE LET w == FifoWrite(d.input_fifo, input_signal)
         IN  [threw |-> w.threw, error |-> IF w.threw THEN "fifo" ELSE "none",
              d |-> [d EXCEPT !.input_fifo = w.fifo]]

\* The second half of process: count elements per output channel come from
\* the output FIFO.
dbl_process_read(d, count) ==
    LET r == FifoRead(d.output_fifo, count * d.output_channels)
    IN  [threw |-> r.threw, out |-> r.out,
         d |-> [d EXCEPT !.output_fifo = r.fifo]]

\* mha_dblbuf_t::input(input_signal): inner_size elements per input channel
\* come from the input FIFO.
dbl_input(d) ==
    LET r == FifoRead(d.input_fifo, d.inner_size * d.input_channels)
    IN  [threw |-> r.threw, out |-> r.out,
         d |-> [d EXCEPT !.input_fifo = r.fifo]]

\* mha_dblbuf_t::output(output_signal): inner_size elements per output
\* channel go to the output FIFO.
dbl_output(d, output_signal) ==
    LET w == FifoWrite(d.output_fifo, output_signal)
    IN  [threw |-> w.threw, d |-> [d EXCEPT !.output_fifo = w.fifo]]

\* The block the inner process delivers for the block it was supplied with:
\* the same block when the channel counts agree, else as many of its
\* elements, repeated in order, as the output block takes.
InnerBlock(d, block) ==
    [k \in 1..(d.inner_size * d.output_channels) |->
        block[((k - 1) % Len(block)) + 1]]

(***************************************************************************)
(* The double buffer between an outer side that calls process and an inner *)
(* side that calls input and output.  With a FIFO class that blocks, the   *)
(* two sides are threads and the inner side can run between the two FIFO   *)
(* operations of process, so these are two steps.  A FIFO operation that   *)
(* throws here is one that waits with a FIFO class that blocks.            *)
(***************************************************************************)

\* The pairs of input_channels and output_channels a double buffer is
\* constructed with.
DbChannels == {<<1, 1>>, <<2, 2>>, <<2, 1>>, <<1, 2>>}

DblCall(op, count, ok, error) == [op |-> op, count |-> count, ok |-> ok, error |-> error]

DblInit ==
    /\ \E outer_size \in 1..DbMaxSize, inner_size \in 1..DbMaxSize,
          delay \in 0..DbMaxDelay, ch \in DbChannels :
          dblbuf = DblNew(outer_size, inner_size, delay, ch[1], ch[2], null_data)
    /\ dblog = [outer |-> "idle", count |-> 0, inner |-> "idle", block |-> <<>>,
                fed |-> <<>>, got |-> <<>>, calls |-> 0, violation |-> FALSE,
                last |-> DblCall("none", 0, TRUE, "none")]
    /\ FifoIdle
    /\ LFIdle
    /\ DrIdle
    /\ RTIdle
    /\ LwIdle
    /\ SbIdle

\* The outer side calls process(input_signal, output_signal, count) and
\* process goes as far as its write to the input FIFO.
ProcessCall(count) ==
    /\ dblog.outer = "idle"
    /\ LET input_signal == Data(Len(dblog.fed), count * dblbuf.input_channels)
           w == dbl_process_write(dblbuf, input_signal, count)
       IN  /\ dblbuf' = w.d
           /\ dblog' = [dblog EXCEPT
                          !.outer = IF w.threw THEN "idle" ELSE "read",
                          !.count = count,
                          !.calls = @ + 1,
                          !.fed = IF w.threw THEN @ ELSE @ \o input_signal,
                          !.violation = @ \/ w.error = "fifo",
                          !.last = DblCall("process", count, ~w.threw, w.error)]
    /\ UNCHANGED <<fifoVars, lfVars, drVars, histVars, rtVars, lwVars, sbVars>>

\* process reads from the output FIFO and returns.
ProcessRead ==
    /\ dblog.outer = "read"
    /\ LET r == dbl_process_read(dblbuf, dblog.count)
       IN  /\ dblbuf' = r.d
           /\ dblog' = [dblog EXCEPT
                          !.outer = "idle",
                          !.got = @ \o Delivered(r.out),
                          !.violation = @ \/ r.threw,
                          !.last = DblCall("process", dblog.count, ~r.threw,
                                           IF r.threw THEN "fifo" ELSE "none")]
    /\ UNCHANGED <<fifoVars, lfVars, drVars, histVars, rtVars, lwVars, sbVars>>

\* The inner side calls input(input_signal).
InnerInput ==
    /\ dblog.inner = "idle"
    /\ LET r == dbl_input(dblbuf)
       IN  /\ dblbuf' = r.d
           /\ dblog' = [dblog EXCEPT
                          !.inner = IF r.threw THEN "idle" ELSE "have",
                          !.block = IF r.threw THEN <<>> ELSE r.out,
                          !.violation = @ \/ r.threw,
                          !.last = DblCall("input", dblbuf.inner_size, ~r.threw,
                                           IF r.threw THEN "fifo" ELSE "none")]
    /\ UNCHANGED <<fifoVars, lfVars, drVars, histVars, rtVars, lwVars, sbVars>>

\* The inner side calls output(output_signal) with the block it made of the
\* block it was supplied with; a block that the output FIFO has no room for
\* is offered again.
InnerOutput ==
    /\ dblog.inner = "have"
    /\ LET w == dbl_output(dblbuf, InnerBlock(dblbuf, dblog.block))
       IN  /\ dblbuf' = w.d
           /\ dblog' = [dblog EXCEPT
                          !.inner = IF w.threw THEN "have" ELSE "idle",
                          !.block = IF w.threw THEN @ ELSE <<>>,
                          !.violation = @ \/ w.threw,
                          !.last = DblCall("output", dblbuf.inner_size, ~w.threw,
                                           IF w.threw THEN "fifo" ELSE "none")]
    /\ UNCHANGED <<fifoVars, lfVars, drVars, histVars, rtVars, lwVars, sbVars>>

\* The outer side calls process with any count up to one more than
\* outer_size.
DblProcess ==
    /\ dblog.calls < DbCalls
    /\ \E count \in 0..(dblbuf.outer_size + 1) : ProcessCall(count)

\* The inner side calls input and output, in turn, at any time.
DblInput == ~dblog.violation /\ InnerInput
DblOutput == ~dblog.violation /\ InnerOutput
DblProcessRead == ProcessRead

DblNext == DblProcess \/ DblProcessRead \/ DblInput \/ DblOutput

SpecDbl == DblInit /\ [][DblNext]_vars

\* inner_size elements per input channel are available to the inner side.
InnerDue == FifoFill(dblbuf.input_fifo) >= dblbuf.inner_size * dblbuf.input_channels

\* The run of a double buffer in which the outer side calls process with
\* count = outer_size and the inner side calls input and then output as
\* soon as inner_size elements are available.
RunProcess ==
    /\ dblog.calls < DbBlocks
    /\ dblog.inner = "idle" /\ ~InnerDue
    /\ ProcessCall(dblbuf.outer_size)
RunProcessRead == dblog.inner = "idle" /\ ~InnerDue /\ ProcessRead
RunInput == InnerDue /\ InnerInput
RunOutput == InnerOutput

DblRunNext == RunProcess \/ RunProcessRead \/ RunInput \/ RunOutput

SpecDblRun == DblInit /\ [][DblRunNext]_vars

(***************************************************************************)
(* Properties of the double buffer                                         *)
(***************************************************************************)

\* The stream the outer side is to get back: delay copies of the delay
\* value for every channel, then the elements passed to process.
DelayedStream ==
    [i \in 1..(dblbuf.delay * dblbuf.output_channels) |-> null_data] \o dblog.fed

DelayBound == dblbuf.inner_size - GCD(dblbuf.inner_size, dblbuf.outer_size)

C26_TooSmall ==
    /\ dblbuf.delay < DelayBound
    /\ dblog.violation

\* The step is the first half of a process call, and the second half.
ProcessCalled == dblog.outer = "idle" /\ dblog'.calls = dblog.calls + 1
ProcessReturned == dblog.outer = "read" /\ dblog'.outer = "idle"

\* A process call with count > outer_size fails with the error on count and
\* changes neither FIFO.
CountRefused ==
    (ProcessCalled /\ dblog'.count > dblbuf.outer_size) =>
       /\ ~dblog'.last.ok /\ dblog'.last.error = "count"
       /\ dblog'.outer = "idle"
       /\ dblbuf' = dblbuf
       /\ dblog'.fed = dblog.fed /\ dblog'.got = dblog.got

\* The input FIFO has taken count elements per input channel, the elements
\* passed in, and process goes on to read.
WroteCount ==
    /\ FifoFill(dblbuf'.input_fifo) =
          FifoFill(dblbuf.input_fifo) + dblog'.count * dblbuf.input_channels
    /\ Len(dblog'.fed) = Len(dblog.fed) + dblog'.count * dblbuf.input_channels
    /\ dblbuf'.output_fifo = dblbuf.output_fifo
    /\ dblog'.outer = "read"

\* The output FIFO has given count elements per output channel to the
\* caller, and process has returned normally.
ReadCount ==
    /\ FifoFill(dblbuf'.output_fifo) =
          FifoFill(dblbuf.output_fifo) - dblog.count * dblbuf.output_channels
    /\ Len(dblog'.got) = Len(dblog.got) + dblog.count * dblbuf.output_channels
    /\ dblbuf'.input_fifo = dblbuf.input_fifo
    /\ dblog'.last.ok

\* C27 as stated: with count > outer_size process fails with the error on
\* count and changes neither FIFO; with count <= outer_size it writes
\* exactly count elements per input channel and reads exactly count
\* elements per output channel.
C27_OriginalStep ==
    /\ CountRefused
    /\ (ProcessCalled /\ dblog'.count <= dblbuf.outer_size) => WroteCount
    /\ ProcessReturned => ReadCount
C27_Original == [][C27_OriginalStep]_vars

\* C27, amended: with count > outer_size process fails with the error on
\* count and changes neither FIFO; with count <= outer_size it writes
\* exactly count elements per input channel unless the input FIFO lacks the
\* space, and then reads exactly count elements per output channel unless
\* the output FIFO lacks the data; a FIFO that lacks the space or the data
\* stays as it is and process fails with the FIFO's error, after a refused
\* read with the input written.
C27_Step ==
    /\ CountRefused
    /\ (ProcessCalled /\ dblog'.count <= dblbuf.outer_size) =>
          IF dblog'.count * dblbuf.input_channels <= FifoSpace(dblbuf.input_fifo)
          THEN WroteCount
          ELSE /\ ~dblog'.last.ok /\ dblog'.last.error = "fifo"
               /\ dblog'.outer = "idle"
               /\ dblbuf' = dblbuf
               /\ dblog'.fed = dblog.fed /\ dblog'.got = dblog.got
    /\ ProcessReturned =>
          IF dblog.count * dblbuf.output_channels <= FifoFill(dblbuf.output_fifo)
          THEN ReadCount
          ELSE /\ ~dblog'.last.ok /\ dblog'.last.error = "fifo"
               /\ dblbuf' = dblbuf
               /\ dblog'.fed = dblog.fed /\ dblog'.got = dblog.got
C27_Process == [][C27_Step]_vars

\* A process call with count > outer_size has just failed, after a call
\* that transferred elements both ways, and a call has failed in its read
\* with its input written.
C27_Witness ==
    /\ dblog.last.op = "process" /\ dblog.last.error = "count"
    /\ dblog.count = dblbuf.outer_size + 1
    /\ Len(dblog.got) > 0
    /\ Len(dblog.fed) * dblbuf.output_channels >
          Len(dblog.got) * dblbuf.input_channels
    /\ dblbuf.input_channels # dblbuf.output_channels

(***************************************************************************)
(* mha_fifo_lw_t                                                           *)
(*                                                                         *)
(* The class is declared in mha_fifo.h and its member functions are        *)
(* defined elsewhere; write, read and set_error are modelled after the     *)
(* declarations' comments and the description of the synchronized ring     *)
(* buffer, on top of mha_fifo_t and of the two implementations of          *)
(* mha_fifo_thread_platform_t.  A side that finds too little space or data *)
(* raises the error it is armed with, else waits; a side that wakes raises *)
(* the error it is armed with, else tests the space or the data again.     *)
(* set_error holds the lock and signals the side it arms.                  *)
(***************************************************************************)

\* The reader's and the writer's index into mha_fifo_lw_t::error.
ReaderIndex == 0
WriterIndex == 1

\* The synchronization object after construction: the lock free, nothing
\* signalled, no error placed.
SyncNew(platform) ==
    [platform |-> platform, mutex |-> "free",
     increase |-> FALSE, decrease |-> FALSE,
     error |-> [i \in {ReaderIndex, WriterIndex} |-> 0]]

\* aquire_mutex() returns when the lock is free, and release_mutex().
aquire_mutex(s, who) == [s EXCEPT !.mutex = who]
release_mutex(s) == [s EXCEPT !.mutex = "free"]

Signal_Lost(platform, waiting, signalled) == signalled

\* pthread_cond_signal wakes the thread that waits on the condition and has
\* no effect when none waits; SetEvent leaves the event signalled until a
\* wait consumes it.
Signal(platform, waiting, signalled) ==
    IF platform = "win32" THEN TRUE ELSE signalled \/ waiting

\* increment(), called by the side that has produced, and decrement(),
\* called by the side that has consumed; waiting tells whether the other
\* side is in its wait.
increment(s, waiting) == [s EXCEPT !.increase = Signal(s.platform, waiting, @)]
decrement(s, waiting) == [s EXCEPT !.decrease = Signal(s.platform, waiting, @)]

WaitReleases_Nothing(s) == s

\* wait_for_decrease() and wait_for_increase() release the lock for the
\* time of the wait.
WaitReleases(s) == release_mutex(s)

WriteWaits_Never(count, available_space) == FALSE

\* write waits "if there is not enough space".
WriteWaits(count, available_space) == count > available_space

ReadWaits_Never(count, available_data) == FALSE

\* read waits "if there is not enough data".
ReadWaits(count, available_data) == count > available_data

Armed_Never(s, index) == FALSE

\* An error has been placed for the side with this index.
Armed(s, index) == s.error[index] # 0

\* A side between two calls: how its latest call ended, and whether the
\* call has waited.
LwWriterIdle(result, waited) ==
    [pc |-> "idle", data |-> <<>>, result |-> result, waited |-> waited]
LwReaderIdle(result, waited) ==
    [pc |-> "idle", count |-> 0, result |-> result, waited |-> waited]

\* The sides in their wait.
WriterWaiting == side.writer.pc = "wait"
ReaderWaiting == side.reader.pc = "wait"

(***************************************************************************)
(* The ring buffer mha_fifo_lw_t between a writer thread and a reader      *)
(* thread, and a third thread that calls set_error.  Each thread takes one *)
(* step at a time: taking the lock is a step, and what a side does between *)
(* taking the lock and releasing it, or waiting, is a step.  keep tells    *)
(* whether the run records what is stored and delivered.                   *)
(***************************************************************************)

LwStart ==
    /\ \E max_fill_count \in 1..LwMaxCap, platform \in {"posix", "win32"} :
          /\ LET f == FifoNew(max_fill_count, null_data)
             IN  buf = f.buf /\ write_ptr = f.write_ptr /\ read_ptr = f.read_ptr
          /\ sync = SyncNew(platform)
    /\ side = [writer |-> LwWriterIdle("none", FALSE),
               reader |-> LwReaderIdle("none", FALSE)]
    /\ written = <<>>
    /\ readout = <<>>
    /\ last = NoCall
    /\ outbuf = <<>>
    /\ LFIdle
    /\ DrIdle
    /\ RTIdle
    /\ DblIdle
    /\ SbIdle

\* write(data, count) is called: the guard's constructor is to take the lock.
WriteCalled(data) ==
    /\ side.writer.pc = "idle"
    /\ side' = [side EXCEPT !.writer =
                  [pc |-> "lock", data |-> data, result |-> "none",
                   waited |-> FALSE]]
    /\ UNCHANGED <<fifoVars, sync, histVars, lfVars, drVars, rtVars, dbVars, sbVars>>

\* read(buf, count) is called.
ReadCalled(count) ==
    /\ side.reader.pc = "idle"
    /\ side' = [side EXCEPT !.reader =
                  [pc |-> "lock", count |-> count, result |-> "none",
                   waited |-> FALSE]]
    /\ UNCHANGED <<fifoVars, sync, histVars, lfVars, drVars, rtVars, dbVars, sbVars>>

\* write, holding the lock, tests the space: with too little it raises the
\* error placed for the writer or waits for a decrease; else it stores the
\* data with mha_fifo_t::write, calls increment() and returns.
WriteTest(keep) ==
    LET count == Len(side.writer.data)
        space == fifo_available_space(buf, write_ptr, read_ptr)
    IN  IF WriteWaits(count, space)
        THEN /\ IF Armed(sync, WriterIndex)
                THEN /\ sync' = release_mutex(sync)
                     /\ side' = [side EXCEPT !.writer = LwWriterIdle("error", side.writer.waited)]
                     /\ last' = IF keep
                                THEN [op |-> "write", count |-> count, ok |-> FALSE]
                                ELSE last
                ELSE /\ sync' = WaitReleases(sync)
                     /\ side' = [side EXCEPT !.writer.pc = "wait",
                                          !.writer.waited = TRUE]
                     /\ last' = last
             /\ UNCHANGED <<fifoVars, written, readout, outbuf>>
        ELSE LET w == fifo_write(buf, write_ptr, side.writer.data, space)
             IN  /\ buf' = w.buf
                 /\ write_ptr' = w.write_ptr
                 /\ sync' = release_mutex(IF w.threw THEN sync
                                          ELSE increment(sync, ReaderWaiting))
                 /\ side' = [side EXCEPT !.writer =
                               LwWriterIdle(IF w.threw THEN "capacity" ELSE "ok",
                                            side.writer.waited)]
                 /\ written' = IF keep /\ ~w.threw THEN written \o side.writer.data
                               ELSE written
                 /\ last' = IF keep
                            THEN [op |-> "write", count |-> count, ok |-> ~w.threw]
                            ELSE last
                 /\ UNCHANGED <<read_ptr, readout, outbuf>>

\* read, holding the lock, tests the data: with too little it raises the
\* error placed for the reader or waits for an increase; else it takes the
\* data with mha_fifo_t::read, calls decrement() and returns.
ReadTest(keep) ==
    LET count == side.reader.count
        fill == fifo_fill_count(buf, write_ptr, read_ptr)
    IN  IF ReadWaits(count, fill)
        THEN /\ IF Armed(sync, ReaderIndex)
                THEN /\ sync' = release_mutex(sync)
                     /\ side' = [side EXCEPT !.reader = LwReaderIdle("error", side.reader.waited)]
                     /\ last' = IF keep
                                THEN [op |-> "read", count |-> count, ok |-> FALSE]
                                ELSE last
                     /\ outbuf' = IF keep THEN FreshOut(count) ELSE outbuf
                ELSE /\ sync' = WaitReleases(sync)
                     /\ side' = [side EXCEPT !.reader.pc = "wait",
                                          !.reader.waited = TRUE]
                     /\ UNCHANGED <<last, outbuf>>
             /\ UNCHANGED <<fifoVars, written, readout>>
        ELSE LET r == fifo_read(buf, read_ptr, count, FreshOut(count), 1, fill)
             IN  /\ read_ptr' = r.read_ptr
                 /\ sync' = release_mutex(IF r.threw THEN sync
                                          ELSE decrement(sync, WriterWaiting))
                 /\ side' = [side EXCEPT !.reader =
                               LwReaderIdle(IF r.threw THEN "capacity" ELSE "ok",
                                            side.reader.waited)]
                 /\ readout' = IF keep THEN readout \o Delivered(r.out) ELSE readout
                 /\ outbuf' = IF keep THEN r.out ELSE outbuf
                 /\ last' = IF keep
                            THEN [op |-> "read", count |-> count, ok |-> ~r.threw]
                            ELSE last
                 /\ UNCHANGED <<buf, write_ptr, written>>

\* A side takes the lock, in the guard's constructor or at the end of its
\* wait.
TakeLock(who, from, to) ==
    /\ side[who].pc = from
    /\ sync.mutex = "free"
    /\ sync' = aquire_mutex(sync, who)
    /\ side' = [side EXCEPT ![who].pc = to]
    /\ UNCHANGED <<fifoVars, histVars, lfVars, drVars, rtVars, dbVars, sbVars>>

LwWriteLock == TakeLock("writer", "lock", "test")
LwReadLock == TakeLock("reader", "lock", "test")
LwWriteRelock == TakeLock("writer", "relock", "woke")
LwReadRelock == TakeLock("reader", "relock", "woke")

\* The writer, holding the lock, tests the space.
LwWriteEnter(keep) ==
    /\ side.writer.pc = "test"
    /\ WriteTest(keep)
    /\ UNCHANGED <<lfVars, drVars, rtVars, dbVars, sbVars>>

\* The reader, holding the lock, tests the data.
LwReadEnter(keep) ==
    /\ side.reader.pc = "test"
    /\ ReadTest(keep)
    /\ UNCHANGED <<lfVars, drVars, rtVars, dbVars, sbVars>>

\* The wait of the writer ends, on a signal or, with pthread_cond_wait, on
\* its own; the writer is to take the lock again.
LwWriteWake ==
    /\ side.writer.pc = "wait"
    /\ sync.decrease
    /\ sync' = [sync EXCEPT !.decrease = FALSE]
    /\ side' = [side EXCEPT !.writer.pc = "relock"]
    /\ UNCHANGED <<fifoVars, histVars, lfVars, drVars, rtVars, dbVars, sbVars>>

LwReadWake ==
    /\ side.reader.pc = "wait"
    /\ sync.increase
    /\ sync' = [sync EXCEPT !.increase = FALSE]
    /\ side' = [side EXCEPT !.reader.pc = "relock"]
    /\ UNCHANGED <<fifoVars, histVars, lfVars, drVars, rtVars, dbVars, sbVars>>

\* pthread_cond_wait may return with no signal sent; a signal sent to the
\* thread by then is used up by this return.
LwSpuriousWake ==
    /\ sync.platform = "posix"
    /\ \E who \in {"writer", "reader"} :
          /\ side[who].pc = "wait"
          /\ side' = [side EXCEPT ![who].pc = "relock"]
          /\ sync' = IF who = "writer" THEN [sync EXCEPT !.decrease = FALSE]
                     ELSE [sync EXCEPT !.increase = FALSE]
    /\ UNCHANGED <<fifoVars, histVars, lfVars, drVars, rtVars, dbVars, sbVars>>

\* The writer, with the lock again after its wait, raises the error placed
\* for it, else tests the space again.
LwWriteResume(keep) ==
    /\ side.writer.pc = "woke"
    /\ IF Armed(sync, WriterIndex)
       THEN /\ sync' = release_mutex(sync)
            /\ side' = [side EXCEPT !.writer = LwWriterIdle("error", side.writer.waited)]
            /\ last' = IF keep
                       THEN [op |-> "write", count |-> Len(side.writer.data), ok |-> FALSE]
                       ELSE last
            /\ UNCHANGED <<fifoVars, written, readout, outbuf>>
       ELSE WriteTest(keep)
    /\ UNCHANGED <<lfVars, drVars, rtVars, dbVars, sbVars>>

\* The reader, with the lock again after its wait, raises the error placed
\* for it, else tests the data again.
LwReadResume(keep) ==
    /\ side.reader.pc = "woke"
    /\ IF Armed(sync, ReaderIndex)
       THEN /\ sync' = release_mutex(sync)
            /\ side' = [side EXCEPT !.reader = LwReaderIdle("error", side.reader.waited)]
            /\ last' = IF keep
                       THEN [op |-> "read", count |-> side.reader.count, ok |-> FALSE]
                       ELSE last
            /\ outbuf' = IF keep THEN FreshOut(side.reader.count) ELSE outbuf
            /\ UNCHANGED <<fifoVars, written, readout>>
       ELSE ReadTest(keep)
    /\ UNCHANGED <<lfVars, drVars, rtVars, dbVars, sbVars>>

\* set_error(index, error): with the lock taken, the error is placed and
\* the side it is for is signalled; the lock is released.
LwSetError ==
    /\ sync.mutex = "free"
    /\ \E index \in {ReaderIndex, WriterIndex} :
          /\ sync.error[index] = 0
          /\ sync' = LET s == [sync EXCEPT !.error[index] = 1]
                     IN  IF index = ReaderIndex THEN increment(s, ReaderWaiting)
                         ELSE decrement(s, WriterWaiting)
    /\ UNCHANGED <<fifoVars, side, histVars, lfVars, drVars, rtVars, dbVars, sbVars>>

\* The runs that record what is stored and delivered.
LwWriteCall ==
    \E count \in 0..get_max_fill_count(buf) :
       /\ Len(written) + count <= LwMaxWritten
       /\ WriteCalled(Data(Len(written), count))
LwReadCall == \E count \in 0..get_max_fill_count(buf) : ReadCalled(count)
LwWrite == LwWriteEnter(TRUE)
LwRead == LwReadEnter(TRUE)
LwWriteAgain == LwWriteResume(TRUE)
LwReadAgain == LwReadResume(TRUE)

LwNext ==
    \/ LwWriteCall \/ LwWriteLock \/ LwWrite
    \/ LwWriteWake \/ LwWriteRelock \/ LwWriteAgain
    \/ LwReadCall \/ LwReadLock \/ LwRead
    \/ LwReadWake \/ LwReadRelock \/ LwReadAgain
    \/ LwSpuriousWake \/ LwSetError

SpecLw == LwStart /\ [][LwNext]_vars

(***************************************************************************)
(* Properties of the ring buffer that blocks                               *)
(***************************************************************************)

\* The elements the FIFO holds, oldest first.
LwContents ==
    [k \in 1..fifo_fill_count(buf, write_ptr, read_ptr) |->
        buf[Slot(read_ptr, k - 1, Len(buf))]]

\* set_error has placed an error for the side with this index.
Placed(index) == sync.error[index] # 0

\* The step in which a side, holding the lock, tests the space or the data.
WriterTests == side.writer.pc \in {"test", "woke"} /\ side'.writer # side.writer
ReaderTests == side.reader.pc \in {"test", "woke"} /\ side'.reader # side.reader

\* No call ends with the error of mha_fifo_t, and the FIFO holds, in order,
\* the elements stored by the writes that returned and not yet delivered.
LwNoCapacityError ==
    /\ side.writer.result # "capacity"
    /\ side.reader.result # "capacity"
    /\ readout \o LwContents = written

\* A write that returns normally has stored its count elements behind those
\* stored before; a write that is not to raise an error and finds too
\* little space waits, the lock released and nothing stored.  A read that
\* returns normally has delivered exactly count elements, those that follow
\* the elements delivered before; a read that finds too little data waits.
C28_Step ==
    /\ (WriterTests /\ side'.writer.result = "ok") =>
          /\ written' = written \o side.writer.data
          /\ readout' = readout
    /\ (WriterTests /\ side.writer.pc = "test" /\ ~Placed(WriterIndex)
           /\ Len(side.writer.data) > fifo_available_space(buf, write_ptr, read_ptr)) =>
          /\ side'.writer.pc = "wait"
          /\ sync'.mutex = "free"
          /\ UNCHANGED <<fifoVars, written, readout>>
    /\ (ReaderTests /\ side'.reader.result = "ok") =>
          /\ Len(outbuf') = side.reader.count
          /\ Delivered(outbuf') = outbuf'
          /\ readout' = readout \o outbuf'
          /\ written' = written
    /\ (ReaderTests /\ side.reader.pc = "test" /\ ~Placed(ReaderIndex)
           /\ side.reader.count > fifo_fill_count(buf, write_ptr, read_ptr)) =>
          /\ side'.reader.pc = "wait"
          /\ sync'.mutex = "free"
          /\ UNCHANGED <<fifoVars, written, readout>>

\* C28: a write with count <= capacity never fails with a capacity error;
\* with too little space the caller waits, and when write returns normally
\* all count elements have been stored in order.  A read never fails for
\* lack of data and, when it returns normally, has delivered exactly count
\* elements in FIFO order.
C28_Blocking == []LwNoCapacityError /\ [][C28_Step]_vars

\* A write that had to wait has returned normally, and a read has delivered
\* elements of it after a wrap of the cursors; no error was ever placed.
C28_Witness ==
    /\ side.writer.pc = "idle" /\ side.writer.result = "ok" /\ side.writer.waited
    /\ side.reader.pc = "idle" /\ side.reader.result = "ok"
    /\ last.op = "read" /\ last.count >= 2
    /\ Len(readout) > get_max_fill_count(buf)
    /\ \A i \in DOMAIN sync.error : sync.error[i] = 0

\* The writer and the reader raise the error placed for them: the call
\* ends, the lock is released and nothing is transferred.
WriterRaises ==
    /\ side'.writer.pc = "idle" /\ side'.writer.result = "error"
    /\ sync'.mutex = "free"
    /\ UNCHANGED <<fifoVars, written, readout>>
ReaderRaises ==
    /\ side'.reader.pc = "idle" /\ side'.reader.result = "error"
    /\ sync'.mutex = "free"
    /\ UNCHANGED <<fifoVars, written, readout>>

\* A side raises an error only if one has been placed for it.
OnlyArmedRaises ==
    /\ side.writer.result = "error" => Placed(WriterIndex)
    /\ side.reader.result = "error" => Placed(ReaderIndex)

\* A side that an error has been placed for raises it when it finds too
\* little space or data and when it has the lock again after a wait, also
\* if the space or the data suffices by then, and never begins a wait.
\* set_error changes neither thread's position, and a side that no error
\* has been placed for waits and returns as it does otherwise.
C29_Step ==
    /\ (WriterTests /\ Placed(WriterIndex) /\
           (side.writer.pc = "woke" \/
            Len(side.writer.data) > fifo_available_space(buf, write_ptr, read_ptr))) =>
          WriterRaises
    /\ (ReaderTests /\ Placed(ReaderIndex) /\
           (side.reader.pc = "woke" \/
            side.reader.count > fifo_fill_count(buf, write_ptr, read_ptr))) =>
          ReaderRaises
    /\ (Placed(WriterIndex) /\ side'.writer.pc = "wait") => side.writer.pc = "wait"
    /\ (Placed(ReaderIndex) /\ side'.reader.pc = "wait") => side.reader.pc = "wait"
    /\ sync'.error # sync.error =>
          /\ side' = side
          /\ UNCHANGED <<fifoVars, written, readout>>
          /\ sync'.error[WriterIndex] = sync.error[WriterIndex] =>
                sync'.decrease = sync.decrease
          /\ sync'.error[ReaderIndex] = sync.error[ReaderIndex] =>
                sync'.increase = sync.increase
    /\ (WriterTests /\ ~Placed(WriterIndex)) =>
          side'.writer.pc = "wait" \/ side'.writer.result = "ok"
    /\ (ReaderTests /\ ~Placed(ReaderIndex)) =>
          side'.reader.pc = "wait" \/ side'.reader.result = "ok"

\* C29: once set_error(index, e) has placed an error for a side, that side
\* raises e the next time it would wait and when it wakes from a wait,
\* instead of waiting further or completing the transfer; the other side is
\* unaffected.
C29_Cancel == []OnlyArmedRaises /\ [][C29_Step]_vars

\* The writer has raised the error placed for it after a wait, and the
\* reader, with no error placed for it, has returned normally from a read
\* that waited and emptied the FIFO.
C29_Witness ==
    /\ side.writer.pc = "idle" /\ side.writer.result = "error" /\ side.writer.waited
    /\ Placed(WriterIndex) /\ ~Placed(ReaderIndex)
    /\ side.reader.pc = "idle" /\ side.reader.result = "ok" /\ side.reader.waited
    /\ last.op = "read" /\ last.ok
    /\ fifo_fill_count(buf, write_ptr, read_ptr) = 0

(***************************************************************************)
(* The ring buffer that blocks, between a writer and a reader that call    *)
(* write and read again and again, each time with a count from 1 to the    *)
(* capacity, and no call of set_error.  Every element is the same, and the *)
(* run does not record what is stored, so the runs are unbounded.  Under a *)
(* fair scheduling every thread that can take a step takes one, a thread   *)
(* that finds the lock free again and again gets it, and a wait ends when  *)
(* it is signalled; a wait need not end on its own.                        *)
(***************************************************************************)

FairWriteCall ==
    \E count \in 1..get_max_fill_count(buf) : WriteCalled([i \in 1..count |-> 1])
FairReadCall == \E count \in 1..get_max_fill_count(buf) : ReadCalled(count)
FairWrite == LwWriteEnter(FALSE)
FairRead == LwReadEnter(FALSE)
FairWriteAgain == LwWriteResume(FALSE)
FairReadAgain == LwReadResume(FALSE)

LwFairNext ==
    \/ FairWriteCall \/ LwWriteLock \/ FairWrite
    \/ LwWriteWake \/ LwWriteRelock \/ FairWriteAgain
    \/ FairReadCall \/ LwReadLock \/ FairRead
    \/ LwReadWake \/ LwReadRelock \/ FairReadAgain
    \/ LwSpuriousWake

LwFairness ==
    /\ WF_vars(FairWriteCall) /\ WF_vars(FairReadCall)
    /\ SF_vars(LwWriteLock) /\ SF_vars(LwReadLock)
    /\ SF_vars(LwWriteRelock) /\ SF_vars(LwReadRelock)
    /\ WF_vars(FairWrite) /\ WF_vars(FairRead)
    /\ WF_vars(FairWriteAgain) /\ WF_vars(FairReadAgain)
    /\ WF_vars(LwWriteWake) /\ WF_vars(LwReadWake)

SpecLwFair == LwStart /\ [][LwFairNext]_vars /\ LwFairness

\* Both sides are in their wait with no signal to end it, the writer for
\* space that only a read can make and the reader for data that only a
\* write can bring.
BothWait ==
    /\ WriterWaiting /\ ReaderWaiting
    /\ ~sync.decrease /\ ~sync.increase
    /\ Len(side.writer.data) > fifo_available_space(buf, write_ptr, read_ptr)
    /\ side.reader.count > fifo_fill_count(buf, write_ptr, read_ptr)

WaitsUnlocked ==
    /\ WriterWaiting => sync.mutex # "writer"
    /\ ReaderWaiting => sync.mutex # "reader"

\* Both sides are in a call that cannot go on: the write lacks space that
\* only a read can make, and the read lacks data that only a write can
\* bring.  From then on each side is in its wait, or on its way into it.
BothBlocked ==
    /\ side.writer.pc # "idle" /\ side.reader.pc # "idle"
    /\ Len(side.writer.data) > fifo_available_space(buf, write_ptr, read_ptr)
    /\ side.reader.count > fifo_fill_count(buf, write_ptr, read_ptr)

\* Both sides are blocked at once only when the counts of the write and of
\* the read together exceed the capacity by two or more, and stay so.
BothBlockedCounts ==
    BothBlocked =>
       Len(side.writer.data) + side.reader.count >= get_max_fill_count(buf) + 2
BothBlockedStep == BothBlocked => BothBlocked'

C31_Step ==
    /\ last'.op = "stop" => Stopped'
    /\ last'.op = "starting" =>
          /\ drifter'.writer_started = drifter.writer_started
          /\ drifter'.reader_started = drifter.reader_started
    /\ (last'.op = "write" /\ drifter'.writer_xruns_in_succession
          <= drifter.maximum_writer_xruns_in_succession_before_stop) =>
          /\ drifter'.writer_started
          /\ drifter'.reader_started = drifter.reader_started
          /\ Running' = drifter.reader_started
    /\ (last'.op = "read" /\ drifter'.reader_xruns_in_succession
          <= drifter.maximum_reader_xruns_in_succession_before_stop) =>
          /\ drifter'.reader_started
          /\ drifter'.writer_started = drifter.writer_started
          /\ Running' = drifter.writer_started
    /\ (last'.op = "write" /\ ~drifter.writer_started) =>
          /\ mid'.started /\ mid'.fill = 0
          /\ ~drifter.reader_started =>
                fifo_fill_count(buf', write_ptr', read_ptr') = 0
    /\ (last'.op = "read" /\ ~drifter.reader_started) =>
          /\ mid'.started /\ mid'.fill = 0
          /\ ~drifter.writer_started =>
                fifo_fill_count(buf', write_ptr', read_ptr') = 0

\* C31: after stop() the FIFO is Running again exactly from the call by
\* which write and read have each been called since the stop: calls of one
\* side alone set only that side's flag, and each side's first call after
\* the stop clears the stored content.
C31_Restart == [][C31_Step]_vars

\* A FIFO that ran and counted a writer xrun has been stopped, and the read
\* that is the reader's first call since then has made it Running again.
C31_Witness ==
    /\ last.op = "read" /\ mid.started
    /\ Running
    /\ drifter.writer_xruns_total = 1
    /\ drifter.writer_xruns_since_start = 0

(***************************************************************************)
(* The drifting FIFO with a record of its latest Running period: written   *)
(* holds the elements the writes have stored and readout the elements the  *)
(* reads have transferred since the call that made the FIFO Running; an    *)
(* explicit starting() in that period is recorded in both as Restart.      *)
(***************************************************************************)

\* The record of an explicit starting() call.
Restart == 0 - 2

\* The record after a call that ran in the Running branch (ran) and
\* transferred the elements moved; a call that makes the FIFO Running
\* begins the record, a call outside the Running branch leaves it.  The
\* caller's array and the counts of the calls are not kept in these runs.
Recorded(record, wasRunning, ran, moved) ==
    IF ran
    THEN IF wasRunning THEN record \o moved ELSE moved
    ELSE record

\* Number of explicit starting() calls in a record.
Restarts(record) == Len(SelectSeq(record, LAMBDA e : e = Restart))

LatInit ==
    /\ \E max_fill_count \in 1..LatCap :
       \E des_fill_count \in 0..max_fill_count :
       \E min_fill_count \in 0..des_fill_count :
          LET o == DrifterNew(min_fill_count, des_fill_count, max_fill_count)
          IN  /\ drifter = [f \in DrFields |-> o[f]]
              /\ buf = o.buf /\ write_ptr = o.write_ptr /\ read_ptr = o.read_ptr
    /\ offered = 0
    /\ mid = NoStart
    /\ written = <<>>
    /\ readout = <<>>
    /\ last = NoCall
    /\ outbuf = <<>>
    /\ run = NoRun
    /\ LFIdle
    /\ RTIdle
    /\ DblIdle
    /\ LwIdle
    /\ SbIdle

\* A call write(data, count) with the next count elements of the run.
LatWrite ==
    \E count \in 0..LatCount :
       \E w \in {drifter_write(DrObj, Data(offered, count))} :
           /\ offered + count <= LatOffered
           /\ w.obj.writer_xruns_total <= MaxXruns
           /\ DrSet(w.obj)
           /\ offered' = offered + count
           /\ written' = Recorded(written, DrRunning(DrObj), DrRunning(w.mid),
                                  Data(offered, w.stored))
           /\ readout' = Recorded(readout, DrRunning(DrObj), DrRunning(w.mid), <<>>)
           /\ mid' = NoStart
           /\ last' = [op |-> "write", count |-> 0, ok |-> ~w.threw]
           /\ outbuf' = <<>>
           /\ UNCHANGED <<lfVars, run, rtVars, dbVars, lwVars, sbVars>>

\* A call read(buf, count).
LatRead ==
    \E count \in 0..LatCount :
       \E r \in {drifter_read(DrObj, count, FreshOut(count))} :
           /\ r.obj.reader_xruns_total <= MaxXruns
           /\ DrSet(r.obj)
           /\ outbuf' = <<>>
           /\ written' = Recorded(written, DrRunning(DrObj), DrRunning(r.mid), <<>>)
           /\ readout' = Recorded(readout, DrRunning(DrObj), DrRunning(r.mid),
                                  SubSeq(r.out, 1, r.transferred))
           /\ mid' = NoStart
           /\ last' = [op |-> "read", count |-> 0, ok |-> ~r.threw]
           /\ UNCHANGED <<offered, lfVars, run, rtVars, dbVars, lwVars, sbVars>>

\* An explicit call of stop(); it ends the period, whose record is dropped.
LatStop ==
    /\ DrSet(stop(DrObj))
    /\ written' = <<>>
    /\ readout' = <<>>
    /\ mid' = NoStart
    /\ last' = [op |-> "stop", count |-> 0, ok |-> TRUE]
    /\ outbuf' = <<>>
    /\ UNCHANGED <<offered, lfVars, run, rtVars, dbVars, lwVars, sbVars>>

\* An explicit call of starting().
LatStarting ==
    /\ Restarts(written) < LatStarts
    /\ DrSet(starting(DrObj))
    /\ written' = IF DrRunning(DrObj) THEN Append(written, Restart) ELSE written
    /\ readout' = IF DrRunning(DrObj) THEN Append(readout, Restart) ELSE readout
    /\ mid' = NoStart
    /\ last' = [op |-> "starting", count |-> 0, ok |-> TRUE]
    /\ outbuf' = <<>>
    /\ UNCHANGED <<offered, lfVars, run, rtVars, dbVars, lwVars, sbVars>>

LatNext == LatWrite \/ LatRead \/ LatStop \/ LatStarting

SpecLat == LatInit /\ [][LatNext]_vars

\* n copies of the null value.
Zeros(n) == [i \in 1..n |-> null_data]

\* The elements of a record, the explicit starting() calls left out.
Elements(record) == SelectSeq(record, LAMBDA e : e # Restart)

\* The part of a record after its last explicit starting() call.
RECURSIVE SinceRestart(_)
SinceRestart(record) ==
    IF record = <<>> \/ record[Len(record)] = Restart
    THEN <<>>
    ELSE Append(SinceRestart(SubSeq(record, 1, Len(record) - 1)),
                record[Len(record)])

\* C32 as stated: in a Running period the elements transferred to the reader
\* are desired_fill_count copies of the null value followed by the elements
\* the writes of the period have stored, in write order.
C32_Original ==
    IsPrefix(Elements(readout),
             Zeros(drifter.desired_fill_count) \o Elements(written))

\* C32, amended: the elements transferred to the reader since the FIFO
\* became Running, or since the latest explicit starting() of the period,
\* are desired_fill_count copies of the null value followed by the elements
\* the writes have stored since then, in write order; what is still to come
\* is the startup zeros left and the elements stored.
C32_Latency ==
    /\ IsPrefix(SinceRestart(readout),
                Zeros(drifter.desired_fill_count) \o SinceRestart(written))
    /\ Running =>
          Len(SinceRestart(readout)) + drifter.startup_zeros + StoredFill
             = drifter.desired_fill_count + Len(SinceRestart(written))

\* After an explicit starting() in a Running period the reader has been
\* given the startup zeros again and then an element written after it.
C32_Witness ==
    /\ Running
    /\ drifter.desired_fill_count > 0
    /\ Restarts(readout) > 0
    /\ Len(SinceRestart(readout)) > drifter.desired_fill_count

(***************************************************************************)
(* Construction of mha_fifo_t with unsigned counters of UWidth bits,       *)
(* followed by calls on the constructed object.  last holds the requested  *)
(* max_fill_count and whether the constructor returned.                    *)
(***************************************************************************)

\* The largest unsigned value, and the unsigned sum a + b.
UMax == 2 ^ UWidth - 1
UAdd(a, b) == (a + b) % (2 ^ UWidth)

CtorThrows_Never(max_fill_count) == FALSE

\* The test (max_fill_count + 1U) <= max_fill_count of the constructor.
CtorThrows(max_fill_count) == UAdd(max_fill_count, 1) <= max_fill_count

\* mha_fifo_t<T>::mha_fifo_t(max_fill_count, t): the overflow test, then
\* buf.resize(max_fill_count + 1U, t), which fails when memory is short, then
\* both cursors at buf.data().
mha_fifo_ctor(max_fill_count, t, enough_memory) ==
    IF CtorThrows(max_fill_count)
    THEN [threw |-> TRUE, error |-> "Cannot create fifo",
          buf |-> <<>>, write_ptr |-> 1, read_ptr |-> 1]
    ELSE IF ~enough_memory
    THEN [threw |-> TRUE, error |-> "Not enough memory",
          buf |-> <<>>, write_ptr |-> 1, read_ptr |-> 1]
    ELSE [threw |-> FALSE, error |-> "none",
          buf |-> [i \in 1..UAdd(max_fill_count, 1) |-> t],
          write_ptr |-> 1, read_ptr |-> 1]

\* No object yet.
CtInit ==
    /\ FifoIdle
    /\ LFIdle
    /\ DrIdle
    /\ RTIdle
    /\ DblIdle
    /\ LwIdle
    /\ SbIdle

\* The constructor has returned an object.
Constructed == last.op # "none" /\ (last.op = "construct" => last.ok)

\* The constructor call, with any max_fill_count an unsigned can hold.
Construct ==
    /\ last.op = "none"
    /\ \E max_fill_count \in 0..UMax : \E enough_memory \in BOOLEAN :
          LET f == mha_fifo_ctor(max_fill_count, null_data, enough_memory)
          IN  /\ buf' = f.buf
              /\ write_ptr' = f.write_ptr
              /\ read_ptr' = f.read_ptr
              /\ last' = [op |-> "construct", count |-> max_fill_count,
                          ok |-> ~f.threw, error |-> f.error]
    /\ UNCHANGED <<written, readout, outbuf, lfVars, drVars, rtVars, dbVars, lwVars, sbVars>>

\* A call write(data, count) on the constructed object.
CtWrite ==
    /\ Constructed
    /\ \E count \in 0..CtCount :
          LET w == fifo_write(buf, write_ptr, [i \in 1..count |-> 1],
                              fifo_available_space(buf, write_ptr, read_ptr))
          IN  /\ buf' = w.buf
              /\ write_ptr' = w.write_ptr
              /\ last' = [op |-> "write", count |-> count, ok |-> ~w.threw]
    /\ UNCHANGED <<read_ptr, written, readout, outbuf, lfVars, drVars, rtVars,
                   dbVars, lwVars, sbVars>>

\* A call read(outbuf, count) on the constructed object.
CtRead ==
    /\ Constructed
    /\ \E count \in 0..CtCount :
          LET r == fifo_read(buf, read_ptr, count, FreshOut(count), 1,
                             fifo_fill_count(buf, write_ptr, read_ptr))
          IN  /\ read_ptr' = r.read_ptr
              /\ outbuf' = r.out
              /\ last' = [op |-> "read", count |-> count, ok |-> ~r.threw]
    /\ UNCHANGED <<buf, write_ptr, written, readout, lfVars, drVars, rtVars,
                   dbVars, lwVars, sbVars>>

CtNext == Construct \/ CtWrite \/ CtRead

SpecCtor == CtInit /\ [][CtNext]_vars

\* What the constructor call leaves: with max_fill_count = 2^UWidth - 1 it
\* throws the construction error and there is no object; with any other
\* max_fill_count it throws only for lack of memory, and the object it
\* returns is empty with max_fill_count + 1 slots.
C33_Step ==
    last'.op = "construct" =>
       LET capacity == last'.count
       IN  /\ capacity = UMax =>
                ~last'.ok /\ last'.error = "Cannot create fifo" /\ buf' = <<>>
           /\ capacity # UMax =>
                /\ last'.error # "Cannot create fifo"
                /\ last'.ok =>
                      /\ fifo_fill_count(buf', write_ptr', read_ptr') = 0
                      /\ fifo_available_space(buf', write_ptr', read_ptr') = capacity
                      /\ get_max_fill_count(buf') = capacity
                      /\ Len(buf') = capacity + 1

\* C33: construction with the capacity 2^w - 1, for which capacity + 1
\* overflows the unsigned counter, fails with a construction error, and no
\* call is made on such an object; for every other capacity the constructed
\* FIFO is empty: get_fill_count() = 0, get_available_space() =
\* get_max_fill_count() = capacity, and it has capacity + 1 slots.
C33_Construction ==
    /\ [](Constructed => Len(buf) - 1 \in 0..(UMax - 1))
    /\ [][C33_Step]_vars

\* A FIFO of the largest capacity that can be constructed has been
\* constructed and filled to that capacity.
C33_Witness ==
    /\ Constructed
    /\ get_max_fill_count(buf) = UMax - 1
    /\ fifo_fill_count(buf, write_ptr, read_ptr) = UMax - 1

\* C34: on a drifting FIFO constructed with minimum_fill_count <=
\* desired_fill_count <= capacity, in every state that write, read, stop and
\* starting calls reach, the stored elements plus the startup zeros number
\* at least minimum_fill_count and at most the capacity; so get_fill_count()
\* + get_available_space() = get_max_fill_count(), and neither the
\* subtraction of startup_zeros in get_available_space() nor the subtraction
\* of minimum_fill_count in read goes below zero.
C34_FillBounds ==
    /\ drifter.minimum_fill_count <= StoredFill + drifter.startup_zeros
    /\ StoredFill + drifter.startup_zeros <= get_max_fill_count(buf)
    /\ dr_get_fill_count(DrObj) + dr_get_available_space(DrObj)
          = get_max_fill_count(buf)
    /\ fifo_available_space(buf, write_ptr, read_ptr) >= drifter.startup_zeros
    /\ dr_get_fill_count(DrObj) >= drifter.minimum_fill_count

\* A Running write was cut short at the upper bound: the stored elements
\* and the startup zeros still waiting fill the capacity together.
C34_Witness ==
    /\ last.op = "write" /\ Running
    /\ drifter.writer_xruns_in_succession > 0
    /\ drifter.minimum_fill_count > 0
    /\ StoredFill > 0 /\ drifter.startup_zeros > 0
    /\ StoredFill + drifter.startup_zeros = get_max_fill_count(buf)

\* The bounds of the xrun counters in a state: each in-succession counter is
\* at most its limit plus one, each since-start counter at most the total
\* counter of its side, and the start bookkeeping of the latest call, if it
\* ran, left both in-succession counters at 0.
XrunBounds ==
    /\ drifter.writer_xruns_in_succession
          <= drifter.maximum_writer_xruns_in_succession_before_stop + 1
    /\ drifter.reader_xruns_in_succession
          <= drifter.maximum_reader_xruns_in_succession_before_stop + 1
    /\ drifter.writer_xruns_since_start <= drifter.writer_xruns_total
    /\ drifter.reader_xruns_since_start <= drifter.reader_xruns_total
    /\ mid.started =>
          /\ mid.writer_xruns_in_succession = 0
          /\ mid.reader_xruns_in_succession = 0

\* No call decreases a total counter, and an explicit starting() leaves both
\* in-succession counters at 0.
XrunStep ==
    /\ drifter'.writer_xruns_total >= drifter.writer_xruns_total
    /\ drifter'.reader_xruns_total >= drifter.reader_xruns_total
    /\ last'.op = "starting" =>
          /\ drifter'.writer_xruns_in_succession = 0
          /\ drifter'.reader_xruns_in_succession = 0

\* C35: in every reachable state writer_xruns_in_succession <=
\* maximum_writer_xruns_in_succession_before_stop + 1 and
\* reader_xruns_in_succession <= maximum_reader_xruns_in_succession_before_stop
\* + 1; both are 0 right after any start bookkeeping; each since-start counter
\* is at most the total counter of its side, and no total counter decreases.
C35_XrunBounds == []XrunBounds /\ [][XrunStep]_vars

\* The writer has passed its limit, which stopped the FIFO with the
\* in-succession counter one above the limit, and the reader has started
\* again since, which set it to 0.
C35_Witness ==
    /\ drifter.writer_xruns_total
          = drifter.maximum_writer_xruns_in_succession_before_stop + 1
    /\ last.op = "read" /\ mid.started
    /\ drifter.writer_xruns_in_succession = 0
    /\ drifter.writer_xruns_since_start = 0
    /\ drifter.reader_xruns_total = 0

\* The chain of the queue: the elements from n on, following next.
RECURSIVE ChainFrom(_)
ChainFrom(n) == IF n = 0 THEN <<>> ELSE <<n>> \o ChainFrom(nodes[n].next)

InChain(n, chain) == \E i \in 1..Len(chain) : chain[i] = n

\* C36: in every state of every interleaving of push with poll and poll_1,
\* the abandoned elements are a prefix of the chain that starts at root and
\* none of the chain is deleted; current, when set, is in the chain and not
\* abandoned; the last element of the chain is not abandoned; root is null
\* only until the first push has linked its element; and the element from
\* which push follows next to find the tail is in the chain.
C36_Chain ==
    LET chain == ChainFrom(root)
    IN  /\ \A i \in 1..Len(chain) : ~nodes[chain[i]].freed
        /\ \A i \in 2..Len(chain) :
              nodes[chain[i]].abandonned => nodes[chain[i - 1]].abandonned
        /\ current # 0 =>
              InChain(current, chain) /\ ~nodes[current].abandonned
        /\ chain # <<>> => ~nodes[chain[Len(chain)]].abandonned
        /\ root = 0 =>
              \/ Len(nodes) = 0
              \/ Len(nodes) = 1 /\ producer.pc = "link"
        /\ producer.pc = "walk" => InChain(producer.previous, chain)

\* While push follows next from an element the consumer has abandoned in
\* the meantime, the chain holds that element, the consumer's current
\* element behind it and a newer element behind that one.
C36_Witness ==
    LET chain == ChainFrom(root)
    IN  /\ Len(chain) >= 3
        /\ nodes[chain[1]].abandonned
        /\ current = chain[2]
        /\ producer.pc = "walk"
        /\ producer.previous = chain[1]

(***************************************************************************)
(* mha_rt_fifo_t with its destructor: the two threads run push, poll and   *)
(* poll_1 as under SpecRT, and once neither is in a call the queue may be  *)
(* destroyed, after which no call is made on it.                           *)
(***************************************************************************)

RECURSIVE remove_all_OnlyAbandonned(_)
remove_all_OnlyAbandonned(q) ==
    IF q.root # 0 /\ q.nodes[q.root].abandonned
    THEN remove_all_OnlyAbandonned(
             [Deref(q, q.root) EXCEPT !.root = q.nodes[q.root].next,
                                      !.current = 0,
                                      !.nodes[q.root] = DeleteElement(@)])
    ELSE [q EXCEPT !.current = 0]

\* mha_rt_fifo_t<T>::remove_all: current = 0, then the deletion of every
\* element from root on.
RECURSIVE remove_all(_)
remove_all(q) ==
    IF q.root # 0
    THEN remove_all([Deref(q, q.root) EXCEPT !.root = q.nodes[q.root].next,
                                             !.current = 0,
                                             !.nodes[q.root] = DeleteElement(@)])
    ELSE [q EXCEPT !.current = 0]

\* The position of both threads once the queue is destroyed.
Destroyed == producer.pc = "destroyed"

\* mha_rt_fifo_t<T>::~mha_rt_fifo_t, called while no thread is in a call.
Destroy ==
    /\ producer.pc = "idle" /\ consumer.pc = "idle"
    /\ \E q \in {remove_all(RTObj)} :
          /\ RTSet(q)
          /\ rtlog' = [rtlog EXCEPT !.uaf = q.uaf]
    /\ producer' = [producer EXCEPT !.pc = "destroyed"]
    /\ consumer' = [consumer EXCEPT !.pc = "destroyed"]
    /\ UNCHANGED <<fifoVars, lfVars, drVars, histVars, dbVars, lwVars, sbVars>>

OwnNext ==
    \/ Push \/ PushLink \/ PushWalk \/ PushRemove
    \/ PollCall \/ Poll1Call \/ PollFirst \/ PollLoop \/ PollAbandon \/ PollReturn
    \/ Destroy

SpecRTOwn == RTInit /\ [][OwnNext]_vars

\* The payload of the k-th push is still allocated, or has been freed.
Allocated(k) == ~nodes[k].freed /\ nodes[k].data = k
Freed(k) == nodes[k].freed /\ nodes[k].data = 0

\* C37: every payload handed to push is freed exactly once: it stays
\* allocated until a push deletes its element, which the consumer has
\* abandoned before, or until the destructor deletes it; no deleted element
\* is deleted or accessed again; and once the destructor has run every
\* payload pushed is freed and the queue holds nothing.
C37_Ownership ==
    /\ ~rtlog.uaf
    /\ \A k \in 1..Len(nodes) : Allocated(k) \/ Freed(k)
    /\ ~Destroyed => \A k \in 1..Len(nodes) : Freed(k) => nodes[k].abandonned
    /\ Destroyed =>
          /\ \A k \in 1..Len(nodes) : Freed(k)
          /\ root = 0 /\ current = 0

\* What a step frees: push deletes only abandoned elements, the destructor
\* every element still allocated, and nothing freed is allocated again.
C37_Step ==
    \A k \in 1..Len(nodes) :
       /\ Freed(k) => Freed(k)'
       /\ (Allocated(k) /\ Freed(k)') =>
             \/ producer.pc = "remove" /\ nodes[k].abandonned /\ root = k
             \/ Destroyed'

\* C37 with the steps that free.
C37_FreedOnce == []C37_Ownership /\ [][C37_Step]_vars

\* The destructor has run on a queue of which push had freed an abandoned
\* payload before, and it has freed payloads that were never abandoned.
C37_Witness ==
    /\ Destroyed
    /\ Len(nodes) >= 3
    /\ nodes[1].abandonned /\ nodes[2].abandonned /\ ~nodes[3].abandonned
    /\ rtlog.pushed = Len(nodes)

\* The elements really stored in the lock-free FIFO, copied in and not yet
\* copied out, and the slots really free.
TrueFill == Len(written) - Len(readout)
TrueSpace == get_max_fill_count(buf) - TrueFill

\* The views of the two sides in a state: neither is negative, the reader's
\* fill count is at most the elements really stored, the writer's available
\* space at most the slots really free, and together they are at most the
\* capacity.
ViewsLag ==
    /\ 0 <= lf_get_fill_count /\ lf_get_fill_count <= TrueFill
    /\ 0 <= lf_get_available_space /\ lf_get_available_space <= TrueSpace
    /\ lf_get_fill_count + lf_get_available_space <= get_max_fill_count(buf)

\* What a step of the other thread does to a side's view: a step of the
\* writer thread never lowers the reader's fill count, a step of the reader
\* thread never lowers the writer's available space.
ViewsStep ==
    /\ writer' # writer => lf_get_fill_count' >= lf_get_fill_count
    /\ reader' # reader => lf_get_available_space' >= lf_get_available_space

\* C38: at every point of every interleaving the fill count the reader
\* would compute plus the available space the writer would compute is at
\* most the capacity; the reader never sees more data and the writer never
\* more space than really exists; and between a side's own operations its
\* view changes only upwards.
C38_ConservativeViews == []ViewsLag /\ [][ViewsStep]_vars

\* Both views lag at once: the writer has copied elements in that it has not
\* published, and the reader has copied elements out without publishing it.
C38_Witness ==
    /\ writer.pc = "copy" /\ reader.pc = "copy"
    /\ lf_get_fill_count < TrueFill
    /\ lf_get_available_space < TrueSpace
    /\ lf_get_fill_count + lf_get_available_space < get_max_fill_count(buf) - 1

(***************************************************************************)
(* The two implementations of mha_fifo_thread_platform_t on their own: a   *)
(* producer thread ("writer"), which calls wait_for_decrease() and         *)
(* increment(), and a consumer thread ("reader"), which calls              *)
(* wait_for_increase() and decrement(), both only while they own the       *)
(* mutex.  wait_for_X of the POSIX class is pthread_cond_wait, which       *)
(* releases the mutex and starts to wait in one step and may wake without  *)
(* a signal; wait_for_X of the Win32 class is release_mutex(), then        *)
(* WaitForSingleObject on an auto-reset event, then aquire_mutex(), three  *)
(* steps between which the other thread may run.  A thread is out (it does *)
(* not own the mutex), in (it owns it), released (Win32: between           *)
(* release_mutex() and WaitForSingleObject), wait (blocked), or woke (its  *)
(* wait is over and it is to take the mutex again).  due tells that the    *)
(* other thread has signalled since the thread decided to wait.            *)
(***************************************************************************)

OtherSide(who) == IF who = "writer" THEN "reader" ELSE "writer"

\* The event or condition a thread waits for: the producer for a decrease,
\* the consumer for an increase.
AwaitedBy(who) == IF who = "writer" THEN "decrease" ELSE "increase"

PlInit ==
    /\ \E platform \in {"posix", "win32"} : sync = SyncNew(platform)
    /\ side = [who \in {"writer", "reader"} |-> [pc |-> "out", due |-> FALSE]]
    /\ FifoIdle
    /\ LFIdle
    /\ DrIdle
    /\ RTIdle
    /\ DblIdle
    /\ SbIdle

PlFrame == UNCHANGED <<fifoVars, histVars, lfVars, drVars, rtVars, dbVars, sbVars>>

\* aquire_mutex() by a thread that does not own the mutex.
PlAcquire(who) ==
    /\ side[who].pc = "out"
    /\ sync.mutex = "free"
    /\ sync' = aquire_mutex(sync, who)
    /\ side' = [side EXCEPT ![who].pc = "in"]
    /\ PlFrame

\* release_mutex() by the owner.
PlRelease(who) ==
    /\ side[who].pc = "in"
    /\ sync' = release_mutex(sync)
    /\ side' = [side EXCEPT ![who].pc = "out"]
    /\ PlFrame

\* increment() by the producer or decrement() by the consumer, owning the
\* mutex.
PlSignal(who) ==
    /\ side[who].pc = "in"
    /\ LET waiting == side[OtherSide(who)].pc = "wait"
       IN  sync' = IF who = "writer" THEN increment(sync, waiting)
                   ELSE decrement(sync, waiting)
    /\ side' = [side EXCEPT ![OtherSide(who)].due =
                  @ \/ side[OtherSide(who)].pc \in {"released", "wait"}]
    /\ PlFrame

\* wait_for_decrease() or wait_for_increase() is called by the owner:
\* pthread_cond_wait releases the mutex and waits; the Win32 class releases
\* the mutex.
PlWait(who) ==
    /\ side[who].pc = "in"
    /\ sync' = WaitReleases(sync)
    /\ side' = [side EXCEPT ![who] =
                  [pc |-> IF sync.platform = "win32" THEN "released" ELSE "wait",
                   due |-> FALSE]]
    /\ PlFrame

\* Win32: WaitForSingleObject is called; it returns at once, resetting the
\* event, when the event is signalled, else the thread is blocked.
PlWaitForSingleObject(who) ==
    /\ side[who].pc = "released"
    /\ IF sync[AwaitedBy(who)]
       THEN /\ sync' = [sync EXCEPT ![AwaitedBy(who)] = FALSE]
            /\ side' = [side EXCEPT ![who].pc = "woke"]
       ELSE /\ sync' = sync
            /\ side' = [side EXCEPT ![who].pc = "wait"]
    /\ PlFrame

\* The blocked thread is woken by the signal.
PlWake(who) ==
    /\ side[who].pc = "wait"
    /\ sync[AwaitedBy(who)]
    /\ sync' = [sync EXCEPT ![AwaitedBy(who)] = FALSE]
    /\ side' = [side EXCEPT ![who].pc = "woke"]
    /\ PlFrame

\* POSIX: pthread_cond_wait wakes without a signal.
PlSpuriousWake(who) ==
    /\ sync.platform = "posix"
    /\ side[who].pc = "wait"
    /\ ~sync[AwaitedBy(who)]
    /\ side' = [side EXCEPT ![who].pc = "woke"]
    /\ UNCHANGED sync
    /\ PlFrame

\* The woken thread takes the mutex again, and wait_for_X returns.
PlReacquire(who) ==
    /\ side[who].pc = "woke"
    /\ sync.mutex = "free"
    /\ sync' = aquire_mutex(sync, who)
    /\ side' = [side EXCEPT ![who].pc = "in"]
    /\ PlFrame

PlWriterAcquire == PlAcquire("writer")
PlReaderAcquire == PlAcquire("reader")
PlWriterRelease == PlRelease("writer")
PlReaderRelease == PlRelease("reader")
PlIncrement == PlSignal("writer")
PlDecrement == PlSignal("reader")
PlWaitForDecrease == PlWait("writer")
PlWaitForIncrease == PlWait("reader")
PlWriterBlocks == PlWaitForSingleObject("writer")
PlReaderBlocks == PlWaitForSingleObject("reader")
PlWriterWake == PlWake("writer")
PlReaderWake == PlWake("reader")
PlWriterSpurious == PlSpuriousWake("writer")
PlReaderSpurious == PlSpuriousWake("reader")
PlWriterReacquire == PlReacquire("writer")
PlReaderReacquire == PlReacquire("reader")

PlNext ==
    \/ PlWriterAcquire \/ PlReaderAcquire
    \/ PlWriterRelease \/ PlReaderRelease
    \/ PlIncrement \/ PlDecrement
    \/ PlWaitForDecrease \/ PlWaitForIncrease
    \/ PlWriterBlocks \/ PlReaderBlocks
    \/ PlWriterWake \/ PlReaderWake
    \/ PlWriterSpurious \/ PlReaderSpurious
    \/ PlWriterReacquire \/ PlReaderReacquire

\* A thread that can take a step takes one; a thread that owns the mutex
\* gives it up in the end, and a woken thread that finds the mutex free
\* again and again gets it in the end.
PlFairness ==
    /\ WF_vars(PlWriterRelease) /\ WF_vars(PlReaderRelease)
    /\ WF_vars(PlWriterBlocks) /\ WF_vars(PlReaderBlocks)
    /\ WF_vars(PlWriterWake) /\ WF_vars(PlReaderWake)
    /\ SF_vars(PlWriterReacquire) /\ SF_vars(PlReaderReacquire)

SpecPlat == PlInit /\ [][PlNext]_vars /\ PlFairness

\* The thread has decided to wait and its wait is not over.
InWait(who) == side[who].pc \in {"released", "wait"}

\* wait_for_X has returned to the thread, which owns the mutex.
Returned(who) == side[who].pc = "in" /\ sync.mutex = who

\* The signal sent to a thread since it decided to wait is still there for
\* it as long as its wait is not over, and the mutex is owned by the thread
\* that is in, if any.
SignalKept ==
    /\ \A who \in {"writer", "reader"} :
          /\ (InWait(who) /\ side[who].due) => sync[AwaitedBy(who)]
          /\ (side[who].pc = "in") = (sync.mutex = who)
    /\ sync.mutex = "free" =>
          side.writer.pc # "in" /\ side.reader.pc # "in"

\* C39: in both implementations, when a thread that owns the mutex has
\* decided to wait and the other thread then takes the mutex and signals,
\* the signal is not lost, also when it is sent between the release of the
\* mutex and the start of the wait, and the waiting thread is woken and
\* returns from its wait owning the mutex.
C39_NoLostWakeup ==
    /\ []SignalKept
    /\ (InWait("writer") /\ side.writer.due) ~> Returned("writer")
    /\ (InWait("reader") /\ side.reader.due) ~> Returned("reader")

\* Win32: the consumer has signalled the producer between the producer's
\* release of the mutex and its WaitForSingleObject.
C39_Witness ==
    /\ sync.platform = "win32"
    /\ side.writer.pc = "released" /\ side.writer.due
    /\ sync.decrease
    /\ sync.mutex = "reader"

(***************************************************************************)
(* steerbf_config::process of the steerbf plugin (steerbf.cpp) in          *)
(* angle_degree mode: angle_src is empty, angle_degree and fix_beam name   *)
(* AC variables.  int has IntWidth bits.  The two globals fixed_beam_value *)
(* and calibrate_north_value live across the calls.  The values read from  *)
(* the AC space are whole numbers, which the float variables hold exactly. *)
(***************************************************************************)

IntMin == 0 - 2 ^ (IntWidth - 1)
IntMax == 2 ^ (IntWidth - 1) - 1
InInt(x) == IntMin <= x /\ x <= IntMax

\* The outcomes of an int addition or subtraction with the exact result x:
\* x, or on overflow (undefined) the value the two's complement add gives.
IntResult(x) ==
    IF InInt(x) THEN {x}
    ELSE {((x - IntMin) % 2 ^ IntWidth) + IntMin}

\* The outcomes of the conversion of the float x to int: x, or out of range
\* (undefined) the smallest int (x86) or the nearest int (ARM).
FloatToInt(x) ==
    IF InInt(x) THEN {x}
    ELSE {IntMin, IF x > 0 THEN IntMax ELSE IntMin}

\* a % b of C for b > 0: the remainder has the sign of a.
Rem(a, b) == IF a >= 0 THEN a % b ELSE 0 - ((0 - a) % b)

\* round(n / d) for d > 0: halves away from zero.
Round(n, d) ==
    IF n >= 0 THEN (2 * n + d) \div (2 * d)
    ELSE 0 - ((2 * (0 - n) + d) \div (2 * d))

\* convert_positive_degree(value, max_degree)
convert_positive_degree(value, max_degree) ==
    IF value < 0 THEN Rem(value, max_degree) + max_degree ELSE value

\* set_calibrate_north(value, max_degree), the global calibrate_north_value
\* being north: the outcomes of the call.
set_calibrate_north(value, max_degree, north) ==
    {convert_positive_degree(Rem(d, max_degree), max_degree) :
        d \in IntResult(value - north)}

max_degree == 360

\* The steering angles and the head angles read from the AC space in the
\* runs: values around the multiples of max_degree and of its half, and at
\* both ends of int.
BeamAngles ==
    {IntMin, 0 - 361, 0 - 360, 0 - 181, 0 - 1, 0, 90, 180, 359, 360,
     IntMax - 180, IntMax - 179, IntMax}
HeadAngles == {IntMin, 0 - 360, 0 - 1, 0, 90, 359, IntMax}

\* The head angle process computes: 0 without a head tracker, else the
\* calibrated head angle, flipped when flip_head is 1.
HeadAngle(head_configured, head, north, flip_head) ==
    IF ~head_configured THEN {0}
    ELSE {IF flip_head = 1 THEN Rem(0 - h + max_degree, max_degree) ELSE h :
             h \in set_calibrate_north(head, max_degree, north)}

\* degree_value_int of the branch that does not use the fixed beam.
BeamDegree(beam, head_angle_float) ==
    UNION {{Rem(sum, max_degree) :
               sum \in IntResult(convert_positive_degree(arg, max_degree) + 180)} :
           arg \in FloatToInt(beam - head_angle_float)}

\* angle_ind = round((nangle - 1) / max_degree * degree_value_int)
AngleInd(nangle, degree_value_int) ==
    Round((nangle - 1) * degree_value_int, max_degree)

SbInit ==
    /\ fixed_beam_value = 0
    /\ calibrate_north_value = 0
    /\ steer = [called |-> FALSE, nangle |-> 1,
                degree_value_int |-> 0, angle_ind |-> 0]
    /\ FifoIdle
    /\ LFIdle
    /\ DrIdle
    /\ RTIdle
    /\ DblIdle
    /\ LwIdle

\* One call of steerbf_config::process: beam and head are the values of the
\* AC variables angle_degree and head_angle, calibrate tells that
\* calibrate_north is configured and its AC variable is not 0, set_fix_beam
\* is the value of the AC variable fix_beam, nangle the number of blocks of
\* bf_vec.
Process ==
    \E beam \in BeamAngles, head \in HeadAngles,
       head_configured \in BOOLEAN, calibrate \in BOOLEAN,
       set_fix_beam \in BOOLEAN, flip_head \in {0, 1},
       nangle \in {1, MaxAngles} :
       \* without a head tracker the head inputs are not read: one choice
       \* of them stands for all
       /\ head_configured \/ (head = 0 /\ ~calibrate /\ flip_head = 0)
       /\ \E north \in {IF head_configured /\ calibrate THEN head
                        ELSE calibrate_north_value} :
          \E head_angle_float \in HeadAngle(head_configured, head, north, flip_head) :
          \E degree_value_int \in
                (IF set_fix_beam THEN {fixed_beam_value}
                 ELSE BeamDegree(beam, head_angle_float)) :
             /\ calibrate_north_value' = north
             /\ fixed_beam_value' = degree_value_int
             /\ steer' = [called |-> TRUE, nangle |-> nangle,
                          degree_value_int |-> degree_value_int,
                          angle_ind |-> AngleInd(nangle, degree_value_int)]
             /\ UNCHANGED <<fifoVars, lfVars, drVars, histVars, rtVars, dbVars, lwVars>>

SbNext == Process

SpecSteer == SbInit /\ [][SbNext]_vars

\* C40: in angle_degree mode with fix_beam configured and nangle >= 1, after
\* any sequence of process calls, whatever the steering angle, the head
\* angle, the calibration and flip_head, the degree value used is in 0..359
\* and angle_ind in 0..nangle-1, so that the channels m + angle_ind * nchan
\* read from bf_vec exist.
C40_IndexInRange ==
    steer.called =>
       /\ steer.degree_value_int \in 0..(max_degree - 1)
       /\ steer.angle_ind \in 0..(steer.nangle - 1)

=============================================================================
